---- MODULE Spec2Model ----
(***************************************************************************)
(* Peer connection coordination layer of Pantheon-Web:                     *)
(*   - TurnService            (src/src/services/turnService.ts)            *)
(*   - P2PClientServiceV2     (src/unnamed/part_015, lines 379-1365)       *)
(*   - P2PClientService       (src/src/services/p2pClientService.ts)       *)
(* Each component is a group of variables with its own next-state          *)
(* relation; a specification runs one component and leaves the others in   *)
(* their constructed state.                                                *)
(***************************************************************************)
EXTENDS Integers, Sequences, FiniteSets, TLC

VARIABLES
    \* ---- TurnService -------------------------------------------------
    now,            \* Date.now(), in milliseconds
    turnToken,      \* this.turnToken (NoToken = null)
    tokenExpiry,    \* this.tokenExpiry
    fetchPromise,   \* this.fetchPromise: 0 = null, else the id of a fetch
    fetches,        \* the fetchTurnToken() promises created so far
    calls,          \* the getTurnServers() invocations made so far
    \* ---- P2PClientServiceV2: rendezvous link --------------------------
    sockets,        \* every socket io() created so far, with its state
    socket,         \* this.socket: 0 = null, else an index into sockets
    status,         \* this.status and the error text of the last updateStatus
    reconnectAttempts,  \* this.reconnectAttempts
    timers,         \* pending setTimeout callbacks of the link
    linkLog,        \* observations: attempts made, terminal errors
    \* ---- P2PClientServiceV2: request correlator ------------------------
    chanPeers,      \* this.peers, per remote user: whether it holds a
                    \* connected object for the user
    requests,       \* every sendRequestToPeer() promise with its timers
    pendingRequests, \* the keys of this.pendingRequests
    \* ---- P2PClientServiceV2: peer connection manager -------------------
    mgr,            \* per endpoint: peers, connectingPeers, queuedSignals,
                    \* the SimplePeer objects and the async calls in progress
    net,            \* per endpoint: webrtc-signal events on their way to it
    mode,           \* what the remote side of endpoint "a" is
    crossed,        \* an offer was sent while the opposite offer was in flight
    \* ---- P2PClientService: the legacy WebSocket link -------------------
    legacy,         \* the fields of the service, the WebSocket objects it
                    \* created and its pending setTimeout callbacks
    lreq,           \* authToken, the auth messages sent per WebSocket,
                    \* the promises of requestPeerModels and sendChatRequest
                    \* and this.handleChatResponse
    \* ---- P2PClientServiceV2: peer directory ----------------------------
    peerModels,         \* this.peerModels: its entries in iteration order
    peerBatteryStates,  \* this.peerBatteryStates, per remote user
    allModels,          \* useP2PClient: the allModels state of the hook
    announced           \* observation: per user, the list of the most recent
                        \* capability announcement since the user was removed

turnVars == <<now, turnToken, tokenExpiry, fetchPromise, fetches, calls>>

linkVars == <<sockets, socket, status, reconnectAttempts, timers, linkLog>>

reqVars == <<chanPeers, requests, pendingRequests>>

mgrVars == <<mgr, net, mode, crossed>>

legVars == <<legacy, lreq>>

dirVars == <<peerModels, peerBatteryStates, allModels, announced>>

vars == <<turnVars, linkVars, reqVars, mgrVars, legVars, dirVars>>

(***************************************************************************)
(* TurnService                                                             *)
(***************************************************************************)

\* Bounds of the credential-cache model.
MaxNow == 2000
MaxCalls == 3
MaxFetches == 2

\* Date.now() advances by one of these amounts between two events.
TickSteps == {400}

\* token.ice_servers: a list, or Undefined when the field is absent.
Undefined == [def |-> FALSE, list |-> <<>>]
List(l) == [def |-> TRUE, list |-> l]

NoToken == [kind |-> "null", ice_servers |-> Undefined, ttl |-> 0, at |-> 0, fetch |-> 0]

\* A raw ice-server entry as the endpoint may send it; "" is an absent field.
RawServer(urls, url, username, credential, password) ==
    [urls |-> urls, url |-> url, username |-> username,
     credential |-> credential, password |-> password]

StunRaw == RawServer("stun:s", "", "", "", "")
TurnRaw == RawServer("", "turn:t", "u", "", "p")

\* A body of POST /turn-token (ttl in seconds; "" is an absent field).
Body(ice, ttl, username, password) ==
    [ice_servers |-> ice, ttl |-> ttl, username |-> username, password |-> password]

\* The bodies POST /turn-token can answer with: an assembled list, an empty
\* list, no list, and bare Twilio credentials without a list.
Responses ==
    { Body(ice, t, "", "") :
        ice \in {List(<<StunRaw, TurnRaw>>), List(<<>>), Undefined}, t \in {1, 2} }
    \cup { Body(Undefined, t, "tu", "tp") : t \in {1, 2} }
    \cup { Body(Undefined, 1, "tu", "") }

\* The list fetchTurnToken builds from bare credentials.
TwilioServers(username, password) ==
    << RawServer("stun:global.stun.twilio.com:3478", "", "", "", ""),
       RawServer("turn:global.turn.twilio.com:3478?transport=udp", "", username, password, ""),
       RawServer("turn:global.turn.twilio.com:3478?transport=tcp", "", username, password, ""),
       RawServer("turn:global.turn.twilio.com:443?transport=tcp", "", username, password, "") >>

\* a fetchTurnToken that returns the body as received
FetchTurnTokenX(data) == data

\* fetchTurnToken, from the parsed body to its return value: ice_servers is
\* built when the body has none but has a username and a password.
FetchTurnToken(data) ==
    IF ~data.ice_servers.def /\ data.username # "" /\ data.password # ""
    THEN [data EXCEPT !.ice_servers = List(TwilioServers(data.username, data.password))]
    ELSE data

\* normalizeIceServers' map callback: urls <- urls | url, credential <-
\* credential | password.
NormalizeServer(s) ==
    [urls |-> IF s.urls # "" THEN s.urls ELSE s.url,
     username |-> s.username,
     credential |-> IF s.credential # "" THEN s.credential ELSE s.password]

\* normalizeIceServers: throws on a missing list, maps every entry otherwise.
NormalizeIceServers(servers) ==
    IF ~servers.def
    THEN [kind |-> "error", msg |-> "No ICE servers in response", servers |-> <<>>]
    ELSE [kind |-> "value", msg |-> "",
          servers |-> [i \in 1..Len(servers.list) |-> NormalizeServer(servers.list[i])]]

\* Set expiry to 80% of TTL: Date.now() + token.ttl * 800.
TokenExpiryAfterX(t, ttl) == t + ttl * 1000
TokenExpiryAfter(t, ttl) == t + ttl * 800

\* The cache test of getTurnServers.
CacheValid == turnToken # NoToken /\ now < tokenExpiry

NoResult == [kind |-> "none", msg |-> "", servers |-> <<>>]

Failure(msg) == [kind |-> "error", msg |-> msg, servers |-> <<>>]

PendingCall(src, f) ==
    [pc |-> "await", src |-> src, fetch |-> f,
     result |-> NoResult, doneAt |-> 0, tokAt |-> 0, tokTtl |-> 0]

\* getTurnServers(), up to its first await (or its return from the cache).
GetTurnServers ==
    /\ Len(calls) < MaxCalls
    /\ IF CacheValid
       THEN /\ calls' = Append(calls,
                  [pc |-> "done", src |-> "cache", fetch |-> 0,
                   result |-> NormalizeIceServers(turnToken.ice_servers),
                   doneAt |-> now, tokAt |-> turnToken.at,
                   tokTtl |-> turnToken.ttl])
            /\ UNCHANGED <<fetchPromise, fetches>>
       ELSE IF fetchPromise # 0
       THEN /\ calls' = Append(calls, PendingCall("join", fetchPromise))
            /\ UNCHANGED <<fetchPromise, fetches>>
       ELSE /\ Len(fetches) < MaxFetches
            /\ fetches' = Append(fetches, "pending")
            /\ fetchPromise' = Len(fetches) + 1
            /\ calls' = Append(calls, PendingCall("fetch", Len(fetches) + 1))
    /\ UNCHANGED <<now, turnToken, tokenExpiry>>

\* What the caller that started fetch f gets once the fetch resolved with
\* token (lines 42-51).
StarterResult(token) ==
    IF ~token.ice_servers.def \/ token.ice_servers.list = <<>>
    THEN Failure("No TURN servers returned from signaling server")
    ELSE NormalizeIceServers(token.ice_servers)

\* The continuation of every getTurnServers() call awaiting fetch f, run when
\* the fetch settles; outcome is a token or Rejected.
Rejected == Body(Undefined, 0 - 1, "", "")

ResumeCall(c, f, outcome) ==
    IF c.pc # "await" \/ c.fetch # f THEN c
    ELSE [c EXCEPT !.pc = "done",
            !.result = IF outcome = Rejected
                       THEN Failure("Failed to fetch TURN token")
                       ELSE IF c.src = "fetch" THEN StarterResult(outcome)
                       ELSE NormalizeIceServers(outcome.ice_servers)]

StarterAwaits(f) ==
    \E i \in 1..Len(calls) :
        calls[i].pc = "await" /\ calls[i].fetch = f /\ calls[i].src = "fetch"

\* fetchTurnToken() of fetch f settles: resolves with a response body, or
\* rejects (network failure, or response.ok false).
FetchSettles(f, outcome) ==
    /\ f \in 1..Len(fetches)
    /\ fetches[f] = "pending"
    /\ fetches' = [fetches EXCEPT ![f] = IF outcome = Rejected THEN "rejected" ELSE "resolved"]
    /\ calls' = [i \in 1..Len(calls) |-> ResumeCall(calls[i], f, outcome)]
    /\ IF StarterAwaits(f)
       THEN /\ fetchPromise' = 0
            /\ IF outcome = Rejected
               THEN UNCHANGED <<turnToken, tokenExpiry>>
               ELSE /\ turnToken' = [kind |-> "token", ice_servers |-> outcome.ice_servers,
                                     ttl |-> outcome.ttl, at |-> now, fetch |-> f]
                    /\ tokenExpiry' = TokenExpiryAfter(now, outcome.ttl)
       ELSE UNCHANGED <<fetchPromise, turnToken, tokenExpiry>>
    /\ UNCHANGED now

FetchResolves ==
    \E f \in 1..MaxFetches, r \in Responses : FetchSettles(f, FetchTurnToken(r))

FetchRejects == \E f \in 1..MaxFetches : FetchSettles(f, Rejected)

\* clearCache()
ClearCache ==
    /\ turnToken' = NoToken
    /\ tokenExpiry' = 0
    /\ fetchPromise' = 0
    /\ UNCHANGED <<now, fetches, calls>>

\* Time passes.
Tick ==
    /\ \E d \in TickSteps : now + d <= MaxNow /\ now' = now + d
    /\ UNCHANGED <<turnToken, tokenExpiry, fetchPromise, fetches, calls>>

InitTurn ==
    /\ now = 0
    /\ turnToken = NoToken
    /\ tokenExpiry = 0
    /\ fetchPromise = 0
    /\ fetches = <<>>
    /\ calls = <<>>

(***************************************************************************)
(* P2PClientServiceV2: the rendezvous link (socket.io connection)          *)
(***************************************************************************)

\* Bounds of the link model.
MaxSockets == 6
MaxAppCalls == 6

maxReconnectAttempts == 5
reconnectDelay == 2000

MaxAttemptsError == "Max reconnection attempts reached"

\* updateStatus(status, error)
UpdateStatus(st, err) == [status |-> st, error |-> err]

SocketConnected(i) == i # 0 /\ sockets[i] = "connected"

\* connect(), past the early return: status 'connecting', a new socket with
\* the connect, connect_error and setupSocketHandlers() handlers.
OpenSocket(log) ==
    /\ Len(sockets) < MaxSockets
    /\ sockets' = Append(sockets, "connecting")
    /\ socket' = Len(sockets) + 1
    /\ status' = UpdateStatus("connecting", "")
    /\ linkLog' = log

\* connect() called by the application (initialize, discoverPeers or direct).
AppConnect ==
    /\ linkLog.appCalls < MaxAppCalls
    /\ IF SocketConnected(socket)
       THEN /\ linkLog' = [linkLog EXCEPT !.appCalls = @ + 1]
            /\ UNCHANGED <<sockets, socket, status>>
       ELSE OpenSocket([linkLog EXCEPT !.appCalls = @ + 1])
    /\ UNCHANGED <<reconnectAttempts, timers>>

\* this.socket!.emit('join-account') in the connect handler: the socket the
\* event is emitted on is the one this.socket refers to when the handler runs
JoinAccountSocket == socket

\* socket.on('connect') of socket i: resets the counter, status 'connected',
\* emits join-account and arms the 500 ms request-peer-list timer.
OnConnect(i) ==
    /\ i \in 1..Len(sockets)
    /\ sockets[i] = "connecting"
    /\ sockets' = [sockets EXCEPT ![i] = "connected"]
    /\ reconnectAttempts' = 0
    /\ status' = UpdateStatus("connected", "")
    /\ linkLog' = [linkLog EXCEPT !.successSinceDrop = TRUE]
    /\ UNCHANGED <<socket, timers>>

\* scheduleReconnect() without its test of the maximum
ScheduleReconnectX(log) ==
    /\ reconnectAttempts' = reconnectAttempts + 1
    /\ timers' = Append(timers, reconnectDelay * (reconnectAttempts + 1))
    /\ status' = UpdateStatus("disconnected", "")
    /\ linkLog' = log

\* scheduleReconnect(): the terminal error once the counter is at the
\* maximum, else increment and arm a timer of reconnectDelay * attempts.
ScheduleReconnect(log) ==
    IF reconnectAttempts >= maxReconnectAttempts
    THEN /\ status' = UpdateStatus("error", MaxAttemptsError)
         /\ linkLog' = [log EXCEPT !.terminalErrors = @ + 1]
         /\ UNCHANGED <<reconnectAttempts, timers>>
    ELSE /\ reconnectAttempts' = reconnectAttempts + 1
         /\ timers' = Append(timers, reconnectDelay * (reconnectAttempts + 1))
         /\ status' = UpdateStatus("disconnected", "")
         /\ linkLog' = log

\* a connect_error handler that retries
OnConnectErrorX(i) ==
    /\ i \in 1..Len(sockets)
    /\ sockets[i] = "connecting"
    /\ sockets' = [sockets EXCEPT ![i] = "failed"]
    /\ ScheduleReconnect(linkLog)
    /\ UNCHANGED socket

\* socket.on('connect_error'): status 'error', the promise of connect() is
\* rejected; nothing else happens.
OnConnectError(i) ==
    /\ i \in 1..Len(sockets)
    /\ sockets[i] = "connecting"
    /\ sockets' = [sockets EXCEPT ![i] = "failed"]
    /\ status' = UpdateStatus("error", "connect_error")
    /\ UNCHANGED <<socket, reconnectAttempts, timers, linkLog>>

\* socket.on('disconnect', reason) with a reason other than 'io client
\* disconnect': the network dropped a connected socket.
OnDisconnect(i) ==
    /\ i \in 1..Len(sockets)
    /\ sockets[i] = "connected"
    /\ sockets' = [sockets EXCEPT ![i] = "closed"]
    /\ ScheduleReconnect([linkLog EXCEPT !.dropped = TRUE, !.successSinceDrop = FALSE,
                                          !.attempts = 0])
    /\ UNCHANGED socket

\* The setTimeout callback of scheduleReconnect.
ReconnectTimer(k) ==
    /\ k \in 1..Len(timers)
    /\ timers' = [j \in 1..(Len(timers) - 1) |-> IF j < k THEN timers[j] ELSE timers[j + 1]]
    /\ IF status.status # "connected"
       THEN IF SocketConnected(socket)
            THEN /\ linkLog' = [linkLog EXCEPT !.attempts = @ + 1]
                 /\ UNCHANGED <<sockets, socket, status>>
            ELSE OpenSocket([linkLog EXCEPT !.attempts = @ + 1])
       ELSE UNCHANGED <<sockets, socket, status, linkLog>>
    /\ UNCHANGED reconnectAttempts

InitLink ==
    /\ sockets = <<>>
    /\ socket = 0
    /\ status = UpdateStatus("disconnected", "")
    /\ reconnectAttempts = 0
    /\ timers = <<>>
    /\ linkLog = [appCalls |-> 0, dropped |-> FALSE, successSinceDrop |-> FALSE,
                  attempts |-> 0, terminalErrors |-> 0]

(***************************************************************************)
(* P2PClientServiceV2: requests over peer channels                         *)
(***************************************************************************)

\* Bounds of the request model.
MaxRequests == 2

KeepAliveMs == 20000

Users == {"u1", "u2"}

\* Caller-supplied timeouts of sendRequestToPeer.
Timeouts == {2 * KeepAliveMs}

MessageTypes == {"chat", "get_models"}

\* A negotiation ended: a connected SimplePeer object is stored for user u.
ChannelConnected(u) ==
    /\ ~chanPeers[u]
    /\ chanPeers' = [chanPeers EXCEPT ![u] = TRUE]
    /\ UNCHANGED <<requests, pendingRequests>>

\* The object of user u is destroyed: the keep-alive intervals that captured
\* it see peer.connected false from now on.
ObjectGone(u) ==
    [id \in 1..Len(requests) |->
        IF requests[id].user = u THEN [requests[id] EXCEPT !.chanLive = FALSE]
        ELSE requests[id]]

\* closePeerConnection(userId), as far as requests see it: peer.destroy(),
\* peers.delete(userId).
ClosePeerChannel(u) ==
    /\ chanPeers' = [chanPeers EXCEPT ![u] = FALSE]
    /\ requests' = ObjectGone(u)
    /\ UNCHANGED pendingRequests

\* peer.on('close') of the object of u (the transport closed it):
\* peers.delete(userId).
ChannelClose(u) ==
    /\ chanPeers[u]
    /\ chanPeers' = [chanPeers EXCEPT ![u] = FALSE]
    /\ requests' = ObjectGone(u)
    /\ UNCHANGED pendingRequests

\* peer.on('error') of the object of u: closePeerConnection(userId).
ChannelError(u) ==
    /\ chanPeers[u]
    /\ ClosePeerChannel(u)

\* socket.on('peer-left'): closePeerConnection(userId).
PeerLeftChannel(u) ==
    /\ chanPeers[u]
    /\ ClosePeerChannel(u)

\* A timer that is not armed (never set, or cleared).
NoTimer == 0 - 1

\* sendRequestToPeer(userId, messageType, data, timeout) with a connected peer:
\* keep-alive interval for 'chat', timeout timer, pendingRequests.set, send.
\* timeoutIn and pingIn are the times left on the two timers; chanLive is what
\* the interval reads of the object it captured.
SendRequestToPeer(u, mt, timeout) ==
    /\ Len(requests) < MaxRequests
    /\ chanPeers[u]
    /\ requests' = Append(requests,
           [user |-> u, type |-> mt, state |-> "pending", error |-> "",
            timeoutIn |-> timeout,
            pingIn |-> IF mt = "chat" THEN KeepAliveMs ELSE NoTimer,
            chanLive |-> mt = "chat"])
    /\ pendingRequests' = pendingRequests \cup {Len(requests) + 1}
    /\ UNCHANGED chanPeers

\* sendRequestToPeer without its connection test
SendRequestNotConnectedX(u) ==
    /\ Len(requests) < MaxRequests
    /\ ~chanPeers[u]
    /\ requests' = Append(requests,
           [user |-> u, type |-> "get_models", state |-> "pending", error |-> "",
            timeoutIn |-> 2 * KeepAliveMs, pingIn |-> NoTimer, chanLive |-> FALSE])
    /\ pendingRequests' = pendingRequests \cup {Len(requests) + 1}
    /\ UNCHANGED chanPeers

\* sendRequestToPeer for a peer that is absent or not connected: throws.
SendRequestNotConnected(u) ==
    /\ Len(requests) < MaxRequests
    /\ ~chanPeers[u]
    /\ requests' = Append(requests,
           [user |-> u, type |-> "get_models", state |-> "rejected",
            error |-> "Not connected to peer",
            timeoutIn |-> NoTimer, pingIn |-> NoTimer, chanLive |-> FALSE])
    /\ UNCHANGED <<chanPeers, pendingRequests>>

\* the timers are left armed
ClearTimersX(r) == r

\* clearInterval(keepAliveInterval); clearTimeout(timeoutId)
ClearTimers(r) == [r EXCEPT !.pingIn = NoTimer, !.chanLive = FALSE, !.timeoutIn = NoTimer]

\* The resolve / reject wrappers stored in pendingRequests: clear both timers,
\* settle the promise (settling a settled promise changes nothing).
Settle(r, st, err) ==
    [ClearTimers(r) EXCEPT
        !.state = IF r.state = "pending" THEN st ELSE r.state,
        !.error = IF r.state = "pending" THEN err ELSE r.error]

\* a correlator that settles the oldest outstanding request, whatever the
\* requestId of the message
HandlePeerMessageX(u, kind, id) ==
    /\ chanPeers[u]
    /\ id \in 1..Len(requests)
    /\ IF pendingRequests # {}
       THEN LET old == CHOOSE j \in pendingRequests :
                          \A l \in pendingRequests : j <= l IN
            /\ requests' = [requests EXCEPT ![old] =
                   IF kind = "response" THEN Settle(@, "resolved", "")
                   ELSE Settle(@, "rejected", "peer error")]
            /\ pendingRequests' = pendingRequests \ {old}
       ELSE UNCHANGED <<requests, pendingRequests>>
    /\ UNCHANGED chanPeers

\* handlePeerMessage(fromUserId, message) for a message {type: 'response' |
\* 'error', requestId} received on the channel of user u.
HandlePeerMessage(u, kind, id) ==
    /\ chanPeers[u]
    /\ id \in 1..Len(requests)
    /\ IF id \in pendingRequests
       THEN /\ requests' = [requests EXCEPT ![id] =
                   IF kind = "response" THEN Settle(@, "resolved", "")
                   ELSE Settle(@, "rejected", "peer error")]
            /\ pendingRequests' = pendingRequests \ {id}
       ELSE UNCHANGED <<requests, pendingRequests>>
    /\ UNCHANGED chanPeers

\* The timeout callback without its reject(...).
OnTimeoutX(r) == ClearTimers(r)

\* The body of the setTimeout callback: clear the keep-alive, reject with
\* 'Request timeout' (the timer itself is spent).
OnTimeout(r) == Settle(r, "rejected", "Request timeout")

\* The setTimeout callback of request id fires; it also deletes the entry.
RequestTimeout(id) ==
    /\ id \in 1..Len(requests)
    /\ requests[id].timeoutIn = 0
    /\ requests' = [requests EXCEPT ![id] = OnTimeout(@)]
    /\ pendingRequests' = pendingRequests \ {id}
    /\ UNCHANGED chanPeers

\* a keep-alive whose failure rejects the request
KeepAliveX(id, throws) ==
    /\ id \in 1..Len(requests)
    /\ requests[id].pingIn = 0
    /\ IF requests[id].chanLive /\ ~throws
       THEN /\ requests' = [requests EXCEPT ![id].pingIn = KeepAliveMs]
            /\ UNCHANGED pendingRequests
       ELSE /\ requests' = [requests EXCEPT ![id] =
                   Settle(@, "rejected", "Keep-alive failed")]
            /\ pendingRequests' = pendingRequests \ {id}
    /\ UNCHANGED chanPeers

\* The setInterval callback of a chat request: ping over the captured object
\* while it is connected; stop the interval when it is not, or when send throws.
KeepAlive(id, throws) ==
    /\ id \in 1..Len(requests)
    /\ requests[id].pingIn = 0
    /\ requests' = [requests EXCEPT ![id] =
           IF @.chanLive /\ ~throws
           THEN [@ EXCEPT !.pingIn = KeepAliveMs]
           ELSE [@ EXCEPT !.pingIn = NoTimer, !.chanLive = FALSE]]
    /\ UNCHANGED <<chanPeers, pendingRequests>>

TimerDue ==
    \E id \in 1..Len(requests) :
        requests[id].timeoutIn = 0 \/ requests[id].pingIn = 0

\* KeepAliveMs pass (the shortest timer period); a due timer callback runs
\* before time moves on.
TickClock ==
    /\ ~TimerDue
    /\ requests' = [id \in 1..Len(requests) |->
          [requests[id] EXCEPT
              !.timeoutIn = IF @ = NoTimer THEN @ ELSE @ - KeepAliveMs,
              !.pingIn = IF @ = NoTimer THEN @ ELSE @ - KeepAliveMs]]
    /\ UNCHANGED <<chanPeers, pendingRequests>>

InitReq ==
    /\ chanPeers = [u \in Users |-> FALSE]
    /\ requests = <<>>
    /\ pendingRequests = {}

(***************************************************************************)
(* P2PClientServiceV2: peer connection manager                             *)
(* (src/unnamed/part_015, handleWebRTCSignal, createPeerConnection,        *)
(* connectToPeer, closePeerConnection and the SimplePeer events).          *)
(*                                                                         *)
(* mgr[e] is the manager running at endpoint e, seen for the one remote    *)
(* peer Other(e).  In mode "host" only endpoint "a" runs the manager and   *)
(* the remote is any host that follows the signalling protocol; in mode    *)
(* "pair" both endpoints run the manager and exchange signals over net.    *)
(***************************************************************************)
MaxObjs == 2        \* SimplePeer objects an endpoint creates
MaxConnects == 2    \* connectToPeer() calls per endpoint
MaxSignals == 3     \* webrtc-signal events an endpoint receives
MaxCand == 2        \* ICE candidates the objects of an endpoint emit

Ends == {"a", "b"}

Other(e) == IF e = "a" THEN "b" ELSE "a"

NoRemote == 0 - 1

HostSrc == 0

\* both sides impolite
WeArePoliteX(e, from) == FALSE

\* this.currentUserId! < fromUserId
WeArePolite(e, from) == e = "a" /\ from = "b"

\* new SimplePeer({ initiator, config: { iceServers } })
NewPeer(initiator, stunOnly) ==
    [initiator |-> initiator, destroyed |-> FALSE, connected |-> FALSE,
     signalingState |-> "stable", hasLocal |-> FALSE, remote |-> NoRemote,
     pendingOffer |-> initiator, doomed |-> FALSE, cands |-> 0,
     applied |-> <<>>, stunOnly |-> stunOnly, call |-> 0]

Sig(type, src) == [type |-> type, src |-> src, n |-> 0]

Live(m, k) == k # 0 /\ ~m.objs[k].destroyed

\* a creation for the peer is awaiting turnService.getTurnServers()
AwaitingCredentials(m) == \E i \in 1..Len(m.tasks) : m.tasks[i].pc = "fetch"

\* the handler returns without applying or queueing s (lines 573, 602, 709,
\* 719): nothing of the manager changes
Lose(m, s, why) == m

\* settle the connectToPeer() promise whose once-handlers sit on object k
SettleCall(m, k, st, err) ==
    LET c == m.objs[k].call IN
    IF c = 0 THEN m
    ELSE [m EXCEPT !.objs[k].call = 0,
                   !.connects[c] = [@ EXCEPT !.state = st, !.error = err,
                                             !.timer = FALSE]]

\* destroy() that leaves the object alive
DestroyPeerX(m, k) == m

\* peer.destroy() with its 'close' event: the handler of
\* setupPeerEventHandlers / createPeerConnection deletes the map entry of the
\* user, connectToPeer's onClose rejects
DestroyPeer(m, k) ==
    IF k = 0 \/ m.objs[k].destroyed THEN m
    ELSE LET m1 == [m EXCEPT !.objs[k].destroyed = TRUE,
                             !.objs[k].connected = FALSE,
                             !.peers = 0]
         IN SettleCall(m1, k, "rejected", "Peer connection closed unexpectedly")

ClosePeerConnection(m) ==
    [DestroyPeer(m, m.peers) EXCEPT !.peers = 0,
                                    !.connectingPeers = FALSE,
                                    !.queuedSignals = 0]

\* peer.signal(s): a destroyed object throws, the callers catch
Signal(m, k, s) ==
    IF m.objs[k].destroyed THEN m
    ELSE LET o == m.objs[k]
             o1 == [o EXCEPT !.applied = Append(@, s.n)]
             o2 == CASE s.type = "offer" ->
                          IF o.signalingState = "stable"
                          THEN [o1 EXCEPT !.signalingState = "have-remote-offer",
                                          !.remote = s.src]
                          ELSE [o1 EXCEPT !.doomed = TRUE]
                    [] s.type = "answer" ->
                          IF o.signalingState = "have-local-offer"
                          THEN [o1 EXCEPT !.signalingState = "stable",
                                          !.remote = s.src]
                          ELSE [o1 EXCEPT !.doomed = TRUE]
                    [] OTHER -> o1
         IN [m EXCEPT !.objs[k] = o2]

\* lines 700-720 without the test of the signaling state
ApplyToPeerX(m, k, s) ==
    IF ~Live(m, k) THEN Lose(m, s, "destroyed") ELSE Signal(m, k, s)

\* lines 700-720: the signal goes to the object unless it is an answer and
\* the object is in stable state
ApplyToPeer(m, k, s) ==
    IF ~Live(m, k) THEN Lose(m, s, "destroyed")
    ELSE IF s.type = "answer" /\ m.objs[k].signalingState = "stable"
         THEN Lose(m, s, "answerInStable")
         ELSE Signal(m, k, s)

NoSig == Sig("none", NoRemote)

Task(kind, pc, s, k, q, i, c) ==
    [kind |-> kind, pc |-> pc, sig |-> s, obj |-> k, arr |-> q, idx |-> i,
     call |-> c, left |-> FALSE]

\* handleWebRTCSignal after its await of getTurnServers (lines 633-720):
\* a failed fetch is replaced by the literal STUN list, the object is stored,
\* the first queued signal is replayed, or with an empty queue the offer is
\* applied
InboundCreate(m, s, ok) ==
    LET k == Len(m.objs) + 1
        m1 == [m EXCEPT !.objs = Append(@, NewPeer(FALSE, ~ok)),
                        !.peers = k,
                        !.connectingPeers = FALSE,
                        !.ovf = @ \/ Len(m.objs) >= MaxObjs]
        q == m1.queuedSignals
    IN IF q # 0 /\ Len(m1.arrays[q]) > 0
       THEN [Signal(m1, k, m1.arrays[q][1])
                EXCEPT !.tasks = Append(@, Task("in", "replay", s, k, q, 2, 0))]
       ELSE ApplyToPeer(m1, k, s)

FallbackError == "turnService.getFallbackTurnServers is not a function"

\* createPeerConnection(userId, true) after its await of getTurnServers
\* (lines 841-968) and the rest of connectToPeer (lines 1108-1151): the catch
\* block calls a method TurnService does not have, so a failed fetch rejects
OutboundCreate(m, c, ok) ==
    IF ~ok
    THEN [m EXCEPT !.connects[c] = [@ EXCEPT !.state = "rejected",
                                             !.error = FallbackError]]
    ELSE LET k == Len(m.objs) + 1 IN
         [m EXCEPT !.objs = Append(@, [NewPeer(TRUE, FALSE) EXCEPT !.call = c]),
                   !.peers = k,
                   !.ovf = @ \/ Len(m.objs) >= MaxObjs,
                   !.connects[c] = [@ EXCEPT !.obj = k, !.timer = TRUE]]

\* await turnService.getTurnServers(): a valid cache answers within the same
\* turn of the event loop, otherwise the caller waits for the fetch
AwaitTurnServers(m, task) ==
    IF m.cred = "valid"
    THEN IF task.kind = "in" THEN InboundCreate(m, task.sig, TRUE)
                             ELSE OutboundCreate(m, task.call, TRUE)
    ELSE [m EXCEPT !.cred = "fetching", !.tasks = Append(@, task)]

PushQueued(m, s) ==
    IF m.queuedSignals = 0
    THEN [m EXCEPT !.arrays = Append(@, <<s>>),
                   !.queuedSignals = Len(m.arrays) + 1]
    ELSE [m EXCEPT !.arrays[m.queuedSignals] = Append(@, s)]

\* a creation for a signal of any type
HandleWithoutPeerX(m, s) ==
    IF m.connectingPeers THEN PushQueued(m, s)
    ELSE AwaitTurnServers([m EXCEPT !.connectingPeers = TRUE],
                          Task("in", "fetch", s, 0, 0, 0, 0))

\* lines 578-698, entered with no usable object in the map
HandleWithoutPeer(m, s) ==
    IF m.connectingPeers THEN PushQueued(m, s)
    ELSE IF s.type # "offer" THEN Lose(m, s, "noPeer")
    ELSE AwaitTurnServers([m EXCEPT !.connectingPeers = TRUE],
                          Task("in", "fetch", s, 0, 0, 0, 0))

\* handleWebRTCSignal({ fromUserId: Other(e), signal: sig })
HandleWebRTCSignal(m0, e, sig) ==
    LET s == [sig EXCEPT !.n = m0.arrivals + 1]
        m == [m0 EXCEPT !.arrivals = @ + 1]
        collision == /\ s.type = "offer"
                     /\ Live(m, m.peers)
                     /\ m.objs[m.peers].signalingState # "stable"
    IN IF collision /\ ~WeArePolite(e, Other(e))
       THEN Lose(m, s, "impolite")
       ELSE IF collision
       THEN HandleWithoutPeer(
               [DestroyPeer(m, m.peers) EXCEPT !.peers = 0,
                                               !.connectingPeers = FALSE], s)
       ELSE IF m.peers = 0 THEN HandleWithoutPeer(m, s)
       ELSE IF m.objs[m.peers].destroyed
       THEN HandleWithoutPeer([m EXCEPT !.peers = 0,
                                        !.connectingPeers = FALSE], s)
       ELSE ApplyToPeer(m, m.peers, s)

\* connectToPeer(Other(e))
ConnectToPeerCall(m) ==
    LET c == Len(m.connects) + 1
        call(st) == [state |-> st, error |-> "", obj |-> 0, timer |-> FALSE]
    IN IF Live(m, m.peers) /\ m.objs[m.peers].connected
       THEN [m EXCEPT !.connects = Append(@, call("resolved"))]
       ELSE LET m1 == IF m.peers # 0 /\ m.objs[m.peers].destroyed
                      THEN [m EXCEPT !.peers = 0, !.connectingPeers = FALSE]
                      ELSE m
            IN AwaitTurnServers([m1 EXCEPT !.connects = Append(@, call("pending"))],
                                Task("out", "fetch", NoSig, 0, 0, 0, c))

RECURSIVE ResumeTasks(_, _, _)
\* the continuations of the callers awaiting the fetch, in the order in
\* which they started to wait
ResumeTasks(m, ts, ok) ==
    IF ts = <<>> THEN m
    ELSE LET t == Head(ts) IN
         ResumeTasks(IF t.kind = "in" THEN InboundCreate(m, t.sig, ok)
                                      ELSE OutboundCreate(m, t.call, ok),
                     Tail(ts), ok)

FetchDone(m, ok) ==
    LET waiting == SelectSeq(m.tasks, LAMBDA t : t.pc = "fetch")
        others == SelectSeq(m.tasks, LAMBDA t : t.pc # "fetch")
    IN ResumeTasks([m EXCEPT !.tasks = others,
                             !.cred = IF ok THEN "valid" ELSE "none"],
                   waiting, ok)

\* one turn of the replay loop (lines 687-696) after its 10 ms sleep, and
\* past the end of the array lines 695-720
ReplayNext(m, i) ==
    LET t == m.tasks[i]
        rest == [j \in 1..(Len(m.tasks) - 1) |->
                    IF j < i THEN m.tasks[j] ELSE m.tasks[j + 1]]
        q == m.arrays[t.arr]
    IN IF t.idx <= Len(q) /\ ~m.objs[t.obj].destroyed
       THEN [Signal(m, t.obj, q[t.idx]) EXCEPT !.tasks[i].idx = @ + 1]
       ELSE ApplyToPeer([m EXCEPT !.tasks = rest, !.queuedSignals = 0],
                        t.obj, t.sig)

\* ---- events at endpoint e ----------------------------------------------
Runs(e) == mode = "pair" \/ e = "a"

Step(e, m) ==
    /\ ~m.ovf
    /\ mgr' = [mgr EXCEPT ![e] = m]

\* socket.emit('webrtc-signal', ...) of the 'signal' handler
Emit(e, s) ==
    net' = IF mode = "pair" THEN [net EXCEPT ![Other(e)] = Append(@, s)] ELSE net

OfferInFlight(e) == \E i \in 1..Len(net[e]) : net[e][i].type = "offer"

ConnectToPeer(e) ==
    /\ Runs(e)
    \* in a pair each endpoint calls connectToPeer once
    /\ IF mode = "pair" THEN mgr[e].connects = <<>>
                        ELSE Len(mgr[e].connects) < MaxConnects
    /\ Step(e, ConnectToPeerCall(mgr[e]))
    /\ UNCHANGED <<net, mode, crossed>>

\* a webrtc-signal event from a remote host that is not modelled further
RemoteSignal(e, type) ==
    /\ mode = "host" /\ e = "a"
    /\ mgr[e].arrivals < MaxSignals
    /\ Step(e, HandleWebRTCSignal(mgr[e], e, Sig(type, HostSrc)))
    /\ UNCHANGED <<net, mode, crossed>>

\* a webrtc-signal event carrying the oldest signal the other endpoint sent
Deliver(e) ==
    /\ mode = "pair"
    /\ net[e] # <<>>
    /\ Step(e, HandleWebRTCSignal(mgr[e], e, Head(net[e])))
    /\ net' = [net EXCEPT ![e] = Tail(@)]
    /\ UNCHANGED <<mode, crossed>>

CredentialFetchDone(e, ok) ==
    /\ Runs(e)
    /\ mgr[e].cred = "fetching"
    /\ Step(e, FetchDone(mgr[e], ok))
    /\ UNCHANGED <<net, mode, crossed>>

\* Date.now() reaches tokenExpiry
CredentialsExpire(e) ==
    /\ Runs(e)
    /\ mgr[e].cred = "valid"
    /\ Step(e, [mgr[e] EXCEPT !.cred = "none"])
    /\ UNCHANGED <<net, mode, crossed>>

ReplayStep(e, i) ==
    /\ i <= Len(mgr[e].tasks)
    /\ mgr[e].tasks[i].pc = "replay"
    /\ Step(e, ReplayNext(mgr[e], i))
    /\ UNCHANGED <<net, mode, crossed>>

\* the 15 s timer of connectToPeer (lines 1145-1151)
ConnectTimeout(e, c) ==
    /\ c <= Len(mgr[e].connects)
    /\ mgr[e].connects[c].timer
    /\ LET m == mgr[e]
           k == m.connects[c].obj
           m1 == [m EXCEPT !.connects[c].timer = FALSE]
       IN Step(e, IF ~m.objs[k].connected /\ ~m.objs[k].destroyed
                  THEN [ClosePeerConnection([m1 EXCEPT !.objs[k].call = 0])
                           EXCEPT !.connects[c].state = "rejected",
                                  !.connects[c].error = "Connection timeout"]
                  ELSE m1)
    /\ UNCHANGED <<net, mode, crossed>>

\* SimplePeer, initiator: createOffer and setLocalDescription complete and
\* the 'signal' event carries the offer
MakeOffer(e, k) ==
    /\ k <= Len(mgr[e].objs)
    /\ Live(mgr[e], k) /\ mgr[e].objs[k].pendingOffer
    /\ IF mgr[e].objs[k].signalingState = "stable"
       THEN /\ Step(e, [mgr[e] EXCEPT !.objs[k].pendingOffer = FALSE,
                                      !.objs[k].hasLocal = TRUE,
                                      !.objs[k].signalingState = "have-local-offer"])
            /\ Emit(e, Sig("offer", k))
            /\ crossed' = (crossed \/ (mode = "pair" /\ OfferInFlight(e)))
       ELSE /\ Step(e, [mgr[e] EXCEPT !.objs[k].pendingOffer = FALSE,
                                      !.objs[k].doomed = TRUE])
            /\ UNCHANGED <<net, crossed>>
    /\ UNCHANGED mode

\* SimplePeer after signal(offer): createAnswer and setLocalDescription
\* complete and the 'signal' event carries the answer
MakeAnswer(e, k) ==
    /\ k <= Len(mgr[e].objs)
    /\ Live(mgr[e], k) /\ ~mgr[e].objs[k].doomed
    /\ ~mgr[e].objs[k].pendingOffer
    /\ mgr[e].objs[k].signalingState = "have-remote-offer"
    /\ Step(e, [mgr[e] EXCEPT !.objs[k].hasLocal = TRUE,
                              !.objs[k].signalingState = "stable"])
    /\ Emit(e, Sig("answer", k))
    /\ UNCHANGED <<mode, crossed>>

RECURSIVE CandsEmitted(_)
CandsEmitted(objs) ==
    IF objs = <<>> THEN 0 ELSE Head(objs).cands + CandsEmitted(Tail(objs))

\* SimplePeer, trickle: the 'signal' event carries an ICE candidate
EmitCandidate(e, k) ==
    /\ mode = "pair"
    /\ k <= Len(mgr[e].objs)
    /\ Live(mgr[e], k) /\ mgr[e].objs[k].hasLocal
    /\ CandsEmitted(mgr[e].objs) < MaxCand
    /\ Step(e, [mgr[e] EXCEPT !.objs[k].cands = @ + 1])
    /\ Emit(e, Sig("candidate", k))
    /\ UNCHANGED <<mode, crossed>>

\* the object whose description k holds is alive and negotiated with k
PartnerReady(e, k) ==
    LET j == mgr[e].objs[k].remote
        far == mgr[Other(e)]
    IN \/ j = HostSrc
       \/ /\ j >= 1 /\ j <= Len(far.objs)
          /\ ~far.objs[j].destroyed /\ ~far.objs[j].doomed
          /\ far.objs[j].hasLocal
          /\ far.objs[j].signalingState = "stable"
          /\ far.objs[j].remote = k

\* SimplePeer 'connect' (lines 739-757 or 890-908, and connectToPeer's
\* onConnect)
TransportConnect(e, k) ==
    /\ k <= Len(mgr[e].objs)
    /\ Live(mgr[e], k)
    /\ LET o == mgr[e].objs[k] IN
          /\ ~o.connected /\ ~o.doomed /\ o.hasLocal
          /\ o.signalingState = "stable"
          /\ o.remote # NoRemote
    /\ PartnerReady(e, k)
    /\ Step(e, SettleCall([mgr[e] EXCEPT !.objs[k].connected = TRUE],
                          k, "resolved", ""))
    /\ UNCHANGED <<net, mode, crossed>>

\* SimplePeer destroys the object with an error: 'error' (lines 797-805 or
\* 951-959, and connectToPeer's onError), then 'close'
TransportError(e, k) ==
    /\ k <= Len(mgr[e].objs)
    /\ Live(mgr[e], k)
    /\ LET m1 == [mgr[e] EXCEPT !.objs[k].destroyed = TRUE,
                                !.objs[k].connected = FALSE]
       IN Step(e, ClosePeerConnection(SettleCall(m1, k, "rejected", "error")))
    /\ UNCHANGED <<net, mode, crossed>>

\* the remote side closes the transport: 'close' (lines 808-813 or 962-967,
\* and connectToPeer's onClose)
TransportClose(e, k) ==
    /\ mode = "host"
    /\ k <= Len(mgr[e].objs)
    /\ Live(mgr[e], k)
    /\ Step(e, DestroyPeer(mgr[e], k))
    /\ UNCHANGED <<net, mode, crossed>>

\* socket.on('peer-left') for the remote peer (lines 515-522); the creations
\* that await their credentials at that moment are marked
PeerLeft(e) ==
    /\ Runs(e)
    /\ LET m == ClosePeerConnection(mgr[e]) IN
       Step(e, [m EXCEPT !.tasks = [i \in 1..Len(m.tasks) |->
                   IF m.tasks[i].pc = "fetch"
                   THEN [m.tasks[i] EXCEPT !.left = TRUE]
                   ELSE m.tasks[i]]])
    /\ UNCHANGED <<net, mode, crossed>>

\* disconnect() (lines 1351-1364): every object of the map is destroyed, the
\* map is cleared.  The socket handlers are installed again by a later
\* connect().
Disconnect(e) ==
    /\ Runs(e)
    /\ Step(e, [DestroyPeer(mgr[e], mgr[e].peers) EXCEPT !.peers = 0])
    /\ UNCHANGED <<net, mode, crossed>>

NewManager(c) ==
    [objs |-> <<>>, peers |-> 0, connectingPeers |-> FALSE,
     queuedSignals |-> 0, arrays |-> <<>>, tasks |-> <<>>, cred |-> c,
     connects |-> <<>>, arrivals |-> 0, ovf |-> FALSE]

InitMgr ==
    /\ mode = "host"
    /\ mgr = [e \in Ends |-> NewManager("none")]
    /\ net = [e \in Ends |-> <<>>]
    /\ crossed = FALSE

InitPair ==
    /\ mode = "pair"
    /\ mgr = [e \in Ends |-> NewManager("none")]
    /\ net = [e \in Ends |-> <<>>]
    /\ crossed = FALSE

(***************************************************************************)
(* P2PClientService: the legacy WebSocket link                             *)
(* (src/src/services/p2pClientService.ts).  legacy is the service object:  *)
(* its fields under their names, wss the WebSocket objects it created      *)
(* (handlers = the on* callbacks are still attached), timers its pending   *)
(* setTimeout callbacks.                                                   *)
(***************************************************************************)

\* Bound of the legacy link model: WebSocket objects created.
MaxWs == 6

\* WebSocket close codes: normal closure and abnormal closure.
CloseCodes == {1000, 1006}

AuthFailedError == "Authentication failed"

\* setStatus(status, message); every call of the link passes a message
LSetStatus(L, st, msg) ==
    [L EXCEPT !.status = st, !.lastError = IF st = "error" THEN msg ELSE ""]

\* cleanup(): connected false, stopHeartbeat(), the handlers of this.ws are
\* detached and this.ws is null
LCleanup(L) ==
    [L EXCEPT !.connected = FALSE,
              !.heartbeatInterval = FALSE,
              !.wss = IF L.ws = 0 THEN @
                      ELSE [@ EXCEPT ![L.ws].handlers = FALSE],
              !.ws = 0]

\* scheduleReconnect()
LScheduleReconnect(L) ==
    IF L.reconnectAttempts >= maxReconnectAttempts
    THEN LSetStatus(L, "error", MaxAttemptsError)
    ELSE [L EXCEPT !.reconnectAttempts = @ + 1,
                   !.timers = Append(@, [kind |-> "reconnect",
                                 delay |-> reconnectDelay * (L.reconnectAttempts + 1)])]

\* connect() of an authenticated user: returns at once while connected or
\* while this.ws is set, else status 'connecting' and a new WebSocket
LConnect(L) ==
    IF L.connected \/ L.ws # 0 THEN L
    ELSE [LSetStatus(L, "connecting", "") EXCEPT
             !.wss = Append(@, [state |-> "connecting", handlers |-> TRUE]),
             !.ws = Len(L.wss) + 1]

\* the step is taken when the objects it creates fit the bound
LStep(L) ==
    /\ Len(L.wss) <= MaxWs
    /\ legacy' = L

\* connect() called by the application (setCurrentUserId, initialize)
LegacyConnect ==
    /\ Len(legacy.wss) < MaxWs
    /\ LStep(LConnect(legacy))

\* ws.onopen: connected, counter reset, status 'connected', authenticate()
\* sends the auth message
WsOpen(i) ==
    /\ i \in 1..Len(legacy.wss)
    /\ legacy.wss[i].state = "connecting"
    /\ LET L == [legacy EXCEPT !.wss[i].state = "open"] IN
       LStep(IF legacy.wss[i].handlers
             THEN LSetStatus([L EXCEPT !.connected = TRUE, !.reconnectAttempts = 0],
                             "connected", "")
             ELSE L)

\* ws.onmessage with an auth_response: handleAuthResponse(message)
AuthResponse(i, success) ==
    /\ i \in 1..Len(legacy.wss)
    /\ legacy.wss[i].state = "open"
    /\ legacy.wss[i].handlers
    /\ LStep(IF success
             THEN [LSetStatus(legacy, "connected", "") EXCEPT !.heartbeatInterval = TRUE]
             ELSE LSetStatus(legacy, "error", AuthFailedError))

\* ws.onclose(event): cleanup now, or a 5 s timer while model discovery is
\* in progress; scheduleReconnect() for a code other than 1000 outside model
\* discovery
OnClose(L, code) ==
    LET L1 == IF ~L.modelDiscoveryInProgress THEN LCleanup(L)
              ELSE [L EXCEPT !.timers = Append(@, [kind |-> "cleanup", delay |-> 5000])]
    IN IF code # 1000 /\ ~L.modelDiscoveryInProgress
       THEN LScheduleReconnect(L1) ELSE L1

\* the WebSocket i closes with the given code
WsClose(i, code) ==
    /\ i \in 1..Len(legacy.wss)
    /\ legacy.wss[i].state \in {"connecting", "open"}
    /\ LET L == [legacy EXCEPT !.wss[i].state = "closed"] IN
       LStep(IF legacy.wss[i].handlers THEN OnClose(L, code) ELSE L)

\* ws.onerror: status 'error', cleanup(), scheduleReconnect().  The close
\* event that follows finds the handlers detached.
WsError(i) ==
    /\ i \in 1..Len(legacy.wss)
    /\ legacy.wss[i].state \in {"connecting", "open"}
    /\ LET L == [legacy EXCEPT !.wss[i].state = "closed"] IN
       LStep(IF legacy.wss[i].handlers
             THEN LScheduleReconnect(LCleanup(LSetStatus(L, "error", "Connection error")))
             ELSE L)

\* requestPeerModels(peerId) while no other model request is outstanding:
\* throws unless connected, else modelDiscoveryInProgress and a 30 s timeout
ModelRequestPending(L) ==
    \E k \in 1..Len(L.timers) : L.timers[k].kind = "models"

RequestPeerModels ==
    /\ legacy.ws # 0
    /\ legacy.connected
    /\ ~ModelRequestPending(legacy)
    /\ LStep([legacy EXCEPT !.modelDiscoveryInProgress = TRUE,
                            !.timers = Append(@, [kind |-> "models", delay |-> 30000])])

RemoveTimer(ts, k) ==
    [j \in 1..(Len(ts) - 1) |-> IF j < k THEN ts[j] ELSE ts[j + 1]]

\* ws.onmessage with the models_response of the outstanding request
ModelsResponse(i) ==
    /\ i \in 1..Len(legacy.wss)
    /\ legacy.wss[i].state = "open"
    /\ legacy.wss[i].handlers
    /\ \E k \in 1..Len(legacy.timers) :
          /\ legacy.timers[k].kind = "models"
          /\ LStep([legacy EXCEPT !.modelDiscoveryInProgress = FALSE,
                                  !.timers = RemoveTimer(@, k)])

\* a setTimeout callback of the legacy link runs: the reconnect attempt of
\* scheduleReconnect, the delayed cleanup of onclose, or the timeout of
\* requestPeerModels
LegacyTimer(k) ==
    /\ k \in 1..Len(legacy.timers)
    /\ LET L == [legacy EXCEPT !.timers = RemoveTimer(@, k)]
           kind == legacy.timers[k].kind
       IN LStep(CASE kind = "reconnect" ->
                       IF ~L.connected THEN LConnect(L) ELSE L
                  [] kind = "cleanup" ->
                       IF ~L.modelDiscoveryInProgress THEN LCleanup(L) ELSE L
                  [] OTHER -> [L EXCEPT !.modelDiscoveryInProgress = FALSE])

\* disconnect(): status 'disconnected', ws.close(1000) when there is a
\* WebSocket, cleanup(), counter 0
LegacyDisconnect ==
    LET L == LSetStatus(legacy, "disconnected", "")
        L1 == IF legacy.ws = 0 THEN L ELSE [L EXCEPT !.wss[legacy.ws].state = "closed"]
    IN LStep([LCleanup(L1) EXCEPT !.reconnectAttempts = 0])

InitLegacy ==
    legacy = [ws |-> 0, connected |-> FALSE, reconnectAttempts |-> 0,
              status |-> "disconnected", lastError |-> "",
              heartbeatInterval |-> FALSE, modelDiscoveryInProgress |-> FALSE,
              wss |-> <<>>, timers |-> <<>>]

(***************************************************************************)
(* P2PClientService: authentication, model requests and chat requests      *)
(***************************************************************************)

\* Bounds: setCurrentUserId(), requestPeerModels() and sendChatRequest()
\* calls.
MaxLogins == 2
MaxModelCalls == 2
MaxChats == 2

\* the size above which authenticate() falls back to the dev token
AuthLimit == 64000

\* JSON.stringify({type: 'auth', token: '', peer_id: ''}).length
AuthOverhead == 39

\* length of the user id, and of the string generatePeerId() returns:
\* 'web-client-' + 13 digits + '-' + 9 characters
UserIdLen == 28
PeerIdLen == 34

\* authToken values by their length (0: no token): a usual token, the
\* longest one whose message fits the limit, and the next longer one
AuthTokens == {0, 900, 63927, 63928}

\* `dev:${this.currentUserId}`
DevToken == [kind |-> "dev", len |-> 4 + UserIdLen]

AuthData(token, peerIdLen) ==
    [token |-> token, size |-> AuthOverhead + token.len + peerIdLen]

\* authenticate() with the fallback taken from the limit on
AuthenticateX(authToken, peerIdLen) ==
    LET token == IF authToken = 0 THEN DevToken ELSE [kind |-> "full", len |-> authToken]
        authData == AuthData(token, peerIdLen)
    IN IF authData.size >= AuthLimit
       THEN <<AuthData(DevToken, peerIdLen)>>
       ELSE <<authData>>

\* authenticate(): the messages it sends.  The token is authToken, or the
\* dev token when there is none; the fallback message replaces the message
\* when its serialization is longer than the limit.
Authenticate(authToken, peerIdLen) ==
    LET token == IF authToken = 0 THEN DevToken ELSE [kind |-> "full", len |-> authToken]
        authData == AuthData(token, peerIdLen)
    IN IF authData.size > AuthLimit
       THEN <<AuthData(DevToken, peerIdLen)>>
       ELSE <<authData>>

\* setCurrentUserId(userId, authToken) with p2pConfig.autoConnect: the
\* fields are set and connect() is called unless connected
SetCurrentUserId(authToken) ==
    /\ lreq.logins < MaxLogins
    /\ Len(legacy.wss) < MaxWs
    /\ lreq' = [lreq EXCEPT !.authToken = authToken, !.logins = @ + 1]
    /\ LStep(IF legacy.connected THEN legacy ELSE LConnect(legacy))

\* ws.onopen of WebSocket i, with the send of authenticate()
WsOpenAuth(i) ==
    /\ WsOpen(i)
    /\ lreq' = IF legacy.wss[i].handlers
               THEN [lreq EXCEPT !.sent[i] = @ \o Authenticate(lreq.authToken, PeerIdLen)]
               ELSE lreq

\* requestPeerModels(peerId) with its promise
RequestPeerModelsCall ==
    /\ Len(lreq.modelCalls) < MaxModelCalls
    /\ RequestPeerModels
    /\ lreq' = [lreq EXCEPT !.modelCalls = Append(@, "pending")]

\* the models_response of the outstanding request: its promise resolves
ModelsResponseCall(i) ==
    /\ ModelsResponse(i)
    /\ lreq' = [lreq EXCEPT !.modelCalls[Len(lreq.modelCalls)] = "resolved"]

\* the timeout callback of requestPeerModels (460-466): it clears
\* modelDiscoveryInProgress, then evaluates `retryCount + 1` for its log
\* line; retryCount is declared nowhere, the callback ends with a
\* ReferenceError and reject() at 465 is not reached
ModelsTimeout(modelCalls) == modelCalls

\* a setTimeout callback of the legacy link, with the promise of the call
LegacyTimerCall(k) ==
    /\ LegacyTimer(k)
    /\ lreq' = IF legacy.timers[k].kind = "models"
               THEN [lreq EXCEPT !.modelCalls = ModelsTimeout(@)]
               ELSE lreq

\* sendChatRequest(peerId, request): throws unless connected, else a promise
\* with a 30 s timer; this.handleChatResponse becomes a closure of the call
\* that remembers the handler it replaced.  requestId is Date.now() of the
\* call; the calls are made in different milliseconds.
SendChatRequest ==
    /\ legacy.ws # 0
    /\ legacy.connected
    /\ Len(lreq.chats) < MaxChats
    /\ lreq' = [lreq EXCEPT
                  !.chats = Append(@, [requestId |-> Len(lreq.chats) + 1,
                                       state |-> "pending", timer |-> TRUE,
                                       originalHandler |-> lreq.handleChatResponse,
                                       answered |-> FALSE]),
                  !.handleChatResponse = Len(lreq.chats) + 1]
    /\ UNCHANGED legacy

\* this.handleChatResponse(message) for the handler h: the method of the
\* class (0) only logs; the closure of call h settles the call and puts the
\* handler it replaced back when the request_id is its own, and does
\* nothing otherwise
HandleChatResponse(R, h, id, success) ==
    IF h = 0 \/ R.chats[h].requestId # id THEN R
    ELSE [R EXCEPT !.chats[h].timer = FALSE,
                   !.chats[h].state = IF @ # "pending" THEN @
                                      ELSE IF success THEN "resolved" ELSE "rejected",
                   !.handleChatResponse = R.chats[h].originalHandler]

\* ws.onmessage with a chat_response for request_id id (248-262); answered
\* records that the response addressed to a pending call reached the client
ChatResponse(i, id, success) ==
    /\ i \in 1..Len(legacy.wss)
    /\ legacy.wss[i].state = "open"
    /\ legacy.wss[i].handlers
    /\ id \in 1..Len(lreq.chats)
    /\ LET R == [lreq EXCEPT !.chats[id].answered = @ \/ lreq.chats[id].state = "pending"]
       IN lreq' = HandleChatResponse(R, lreq.handleChatResponse, id, success)
    /\ UNCHANGED legacy

\* the 30 s timer of sendChatRequest call c (530-532)
ChatTimeout(c) ==
    /\ c \in 1..Len(lreq.chats)
    /\ lreq.chats[c].timer
    /\ lreq' = [lreq EXCEPT !.chats[c].timer = FALSE,
                            !.chats[c].state = IF @ = "pending" THEN "rejected" ELSE @]
    /\ UNCHANGED legacy

InitLegacyRequests ==
    lreq = [authToken |-> 0, logins |-> 0, sent |-> [i \in 1..(MaxWs + 1) |-> <<>>],
            modelCalls |-> <<>>, chats |-> <<>>, handleChatResponse |-> 0]

(***************************************************************************)
(* P2PClientServiceV2: peer directory                                      *)
(***************************************************************************)

\* ModelInfo lists a peer announces (by model name), and battery states (0:
\* the field is absent).
ModelNames == {"m1", "m2"}

ModelLists == {<<>>, <<"m1">>, <<"m2", "m1">>}

NoBattery == 0

BatteryStates == {NoBattery, 1}

\* Map.has / Map.get / Map.set / Map.delete on a Map kept as the sequence of
\* its entries in insertion order: set keeps the position of an existing
\* key and appends a new one.
MapHas(m, u) == \E i \in 1..Len(m) : m[i].userId = u

MapGet(m, u) == m[CHOOSE i \in 1..Len(m) : m[i].userId = u].models

MapSet(m, u, models) ==
    IF MapHas(m, u)
    THEN [i \in 1..Len(m) |-> IF m[i].userId = u THEN [m[i] EXCEPT !.models = models]
                              ELSE m[i]]
    ELSE Append(m, [userId |-> u, models |-> models])

MapDelete(m, u) == SelectSeq(m, LAMBDA e : e.userId # u)

\* getAllAvailableModels(): an object with one property per entry of
\* peerModels, added in the iteration order of the Map
GetAllAvailableModels(pm) ==
    [i \in 1..Len(pm) |-> [userId |-> pm[i].userId, models |-> pm[i].models]]

\* peerBatteryStates.set(userId, batteryState) when the field is present
SetBattery(bs, u, battery) ==
    IF battery # NoBattery THEN [bs EXCEPT ![u] = battery] ELSE bs

\* notifyModelListeners(): the listener of the hook stores the object
\* (setAllModels)
NotifyModelListeners == allModels' = GetAllAvailableModels(peerModels')

\* the statements both rendezvous handlers run for one PeerInfo / event
\* {userId, models, batteryState}: the list is stored only when it is present
\* and not empty.  D is <<peerModels, peerBatteryStates>>.
StoreServerModels(D, u, models, battery) ==
    IF Len(models) > 0
    THEN <<MapSet(D[1], u, models), SetBattery(D[2], u, battery)>>
    ELSE D

\* socket.on('peer-models-updated')
PeerModelsUpdated(u, models, battery) ==
    /\ LET D == StoreServerModels(<<peerModels, peerBatteryStates>>, u, models, battery) IN
       /\ peerModels' = D[1]
       /\ peerBatteryStates' = D[2]
    /\ IF Len(models) > 0 THEN NotifyModelListeners ELSE UNCHANGED allModels
    /\ announced' = [announced EXCEPT ![u] = List(models)]

\* peers.forEach of the existing-peers handler
RECURSIVE StoreSnapshot(_, _)
StoreSnapshot(D, peers) ==
    IF peers = <<>> THEN D
    ELSE StoreSnapshot(StoreServerModels(D, Head(peers).userId, Head(peers).models,
                                         Head(peers).batteryState),
                       Tail(peers))

\* the existing-peers snapshots the server can send: every peer of the
\* account at most once
PeerInfos == [userId : Users, models : ModelLists, batteryState : BatteryStates]

Snapshots ==
    {<<p>> : p \in PeerInfos}
    \cup {<<p, q>> : p \in {x \in PeerInfos : x.userId = "u1"},
                     q \in {x \in PeerInfos : x.userId = "u2"}}

\* socket.on('existing-peers')
ExistingPeers(peers) ==
    /\ LET D == StoreSnapshot(<<peerModels, peerBatteryStates>>, peers) IN
       /\ peerModels' = D[1]
       /\ peerBatteryStates' = D[2]
    /\ IF \E i \in 1..Len(peers) : Len(peers[i].models) > 0
       THEN NotifyModelListeners ELSE UNCHANGED allModels
    /\ announced' = [u \in Users |->
          IF \E i \in 1..Len(peers) : peers[i].userId = u
          THEN List(peers[CHOOSE i \in 1..Len(peers) : peers[i].userId = u].models)
          ELSE announced[u]]

\* handlePeerMessage for a models_available message on the channel of u:
\* message.models || [] is stored whatever its length
ModelsAvailable(u, models, battery) ==
    /\ chanPeers[u]
    /\ peerModels' = MapSet(peerModels, u, models)
    /\ peerBatteryStates' = SetBattery(peerBatteryStates, u, battery)
    /\ NotifyModelListeners
    /\ announced' = [announced EXCEPT ![u] = List(models)]

\* requestModelsFromPeer(userId): sendRequestToPeer(userId, 'get_models')
RequestModelsFromPeer(u) ==
    \E t \in Timeouts : SendRequestToPeer(u, "get_models", t)

\* the response to request id arrives on the channel of user from;
\* requestModelsFromPeer resumes in the same turn of the event loop and stores
\* response.models || [] under the user the request was sent to
GetModelsResponse(from, id, models, battery) ==
    /\ HandlePeerMessage(from, "response", id)
    /\ IF id \in pendingRequests /\ requests[id].type = "get_models"
       THEN /\ peerModels' = MapSet(peerModels, requests[id].user, models)
            /\ peerBatteryStates' = SetBattery(peerBatteryStates, requests[id].user, battery)
            /\ NotifyModelListeners
            /\ announced' = [announced EXCEPT ![requests[id].user] = List(models)]
       ELSE UNCHANGED dirVars

\* socket.on('peer-left'): closePeerConnection, both entries deleted,
\* listeners notified
DirPeerLeft(u) ==
    /\ ClosePeerChannel(u)
    /\ peerModels' = MapDelete(peerModels, u)
    /\ peerBatteryStates' = [peerBatteryStates EXCEPT ![u] = NoBattery]
    /\ NotifyModelListeners
    /\ announced' = [announced EXCEPT ![u] = Undefined]

\* disconnect(): every object destroyed, peers and peerModels cleared, the
\* socket disconnected and dropped, status 'disconnected'
DirDisconnect ==
    /\ chanPeers' = [u \in Users |-> FALSE]
    /\ requests' = [id \in 1..Len(requests) |-> [requests[id] EXCEPT !.chanLive = FALSE]]
    /\ UNCHANGED pendingRequests
    /\ peerModels' = <<>>
    /\ UNCHANGED <<peerBatteryStates, allModels>>
    /\ announced' = [u \in Users |-> Undefined]
    /\ sockets' = IF socket = 0 THEN sockets ELSE [sockets EXCEPT ![socket] = "closed"]
    /\ socket' = 0
    /\ status' = UpdateStatus("disconnected", "")
    /\ UNCHANGED <<reconnectAttempts, timers, linkLog>>

\* findModelHost(modelName): the for loop over Object.entries(allModels)
RECURSIVE FindModelHostIn(_, _)
FindModelHostIn(entries, name) ==
    IF entries = <<>> THEN "null"
    ELSE IF \E k \in 1..Len(Head(entries).models) : Head(entries).models[k] = name
         THEN Head(entries).userId
         ELSE FindModelHostIn(Tail(entries), name)

FindModelHost(name) == FindModelHostIn(allModels, name)

InitDir ==
    /\ peerModels = <<>>
    /\ peerBatteryStates = [u \in Users |-> NoBattery]
    /\ allModels = <<>>
    /\ announced = [u \in Users |-> Undefined]

Init == InitTurn /\ InitLink /\ InitReq /\ InitMgr /\ InitLegacy /\ InitLegacyRequests /\ InitDir

NextTurn ==
    \/ GetTurnServers /\ UNCHANGED <<linkVars, reqVars, mgrVars, legVars, dirVars>>
    \/ FetchResolves /\ UNCHANGED <<linkVars, reqVars, mgrVars, legVars, dirVars>>
    \/ FetchRejects /\ UNCHANGED <<linkVars, reqVars, mgrVars, legVars, dirVars>>
    \/ ClearCache /\ UNCHANGED <<linkVars, reqVars, mgrVars, legVars, dirVars>>
    \/ Tick /\ UNCHANGED <<linkVars, reqVars, mgrVars, legVars, dirVars>>

SpecTurn == Init /\ [][NextTurn]_vars

NextLink ==
    \/ AppConnect /\ UNCHANGED <<turnVars, reqVars, mgrVars, legVars, dirVars>>
    \/ \E i \in 1..MaxSockets : OnConnect(i) /\ UNCHANGED <<turnVars, reqVars, mgrVars, legVars, dirVars>>
    \/ \E i \in 1..MaxSockets : OnConnectError(i) /\ UNCHANGED <<turnVars, reqVars, mgrVars, legVars, dirVars>>
    \/ \E i \in 1..MaxSockets : OnDisconnect(i) /\ UNCHANGED <<turnVars, reqVars, mgrVars, legVars, dirVars>>
    \/ \E k \in 1..MaxSockets : ReconnectTimer(k) /\ UNCHANGED <<turnVars, reqVars, mgrVars, legVars, dirVars>>

SpecLink == Init /\ [][NextLink]_vars

\* The application uses one of the two rendezvous services: the V2 link
\* runs while the legacy service was never connected, and the other way round.
LegacyUnused == legacy.wss = <<>>

LinkUnused == sockets = <<>> /\ linkLog.appCalls = 0

NextRendezvous ==
    \/ LegacyUnused /\ AppConnect /\ UNCHANGED <<turnVars, reqVars, mgrVars, legVars, dirVars>>
    \/ \E i \in 1..MaxSockets : OnConnect(i) /\ UNCHANGED <<turnVars, reqVars, mgrVars, legVars, dirVars>>
    \/ \E i \in 1..MaxSockets : OnConnectError(i) /\ UNCHANGED <<turnVars, reqVars, mgrVars, legVars, dirVars>>
    \/ \E i \in 1..MaxSockets : OnDisconnect(i) /\ UNCHANGED <<turnVars, reqVars, mgrVars, legVars, dirVars>>
    \/ \E k \in 1..MaxSockets : ReconnectTimer(k) /\ UNCHANGED <<turnVars, reqVars, mgrVars, legVars, dirVars>>
    \/ LinkUnused /\ LegacyConnect /\ UNCHANGED <<turnVars, linkVars, reqVars, mgrVars, dirVars, lreq>>
    \/ \E i \in 1..MaxWs : WsOpen(i) /\ UNCHANGED <<turnVars, linkVars, reqVars, mgrVars, dirVars, lreq>>
    \/ \E i \in 1..MaxWs, ok \in BOOLEAN :
          AuthResponse(i, ok) /\ UNCHANGED <<turnVars, linkVars, reqVars, mgrVars, dirVars, lreq>>
    \/ \E i \in 1..MaxWs, code \in CloseCodes :
          WsClose(i, code) /\ UNCHANGED <<turnVars, linkVars, reqVars, mgrVars, dirVars, lreq>>
    \/ \E i \in 1..MaxWs : WsError(i) /\ UNCHANGED <<turnVars, linkVars, reqVars, mgrVars, dirVars, lreq>>
    \/ RequestPeerModels /\ UNCHANGED <<turnVars, linkVars, reqVars, mgrVars, dirVars, lreq>>
    \/ \E i \in 1..MaxWs : ModelsResponse(i) /\ UNCHANGED <<turnVars, linkVars, reqVars, mgrVars, dirVars, lreq>>
    \/ \E k \in 1..(MaxWs + 2) : LegacyTimer(k) /\ UNCHANGED <<turnVars, linkVars, reqVars, mgrVars, dirVars, lreq>>
    \/ LegacyDisconnect /\ UNCHANGED <<turnVars, linkVars, reqVars, mgrVars, dirVars, lreq>>

SpecRendezvous == Init /\ [][NextRendezvous]_vars

\* The legacy service from login to shutdown: the link with its
\* authentication.
NextAuth ==
    \/ \E t \in AuthTokens : SetCurrentUserId(t) /\ UNCHANGED <<turnVars, linkVars, reqVars, mgrVars, dirVars>>
    \/ \E i \in 1..MaxWs : WsOpenAuth(i) /\ UNCHANGED <<turnVars, linkVars, reqVars, mgrVars, dirVars>>
    \/ \E i \in 1..MaxWs, ok \in BOOLEAN :
          AuthResponse(i, ok) /\ UNCHANGED <<turnVars, linkVars, reqVars, mgrVars, dirVars, lreq>>
    \/ \E i \in 1..MaxWs, code \in CloseCodes :
          WsClose(i, code) /\ UNCHANGED <<turnVars, linkVars, reqVars, mgrVars, dirVars, lreq>>
    \/ \E i \in 1..MaxWs : WsError(i) /\ UNCHANGED <<turnVars, linkVars, reqVars, mgrVars, dirVars, lreq>>
    \/ \E k \in 1..(MaxWs + 2) : LegacyTimerCall(k) /\ UNCHANGED <<turnVars, linkVars, reqVars, mgrVars, dirVars>>
    \/ LegacyDisconnect /\ UNCHANGED <<turnVars, linkVars, reqVars, mgrVars, dirVars, lreq>>

SpecAuth == Init /\ [][NextAuth]_vars

\* The legacy service on a connection that stays up: model requests and
\* chat requests.
NextLegacyReq ==
    \/ LegacyConnect /\ UNCHANGED <<turnVars, linkVars, reqVars, mgrVars, dirVars, lreq>>
    \/ \E i \in 1..MaxWs : WsOpenAuth(i) /\ UNCHANGED <<turnVars, linkVars, reqVars, mgrVars, dirVars>>
    \/ RequestPeerModelsCall /\ UNCHANGED <<turnVars, linkVars, reqVars, mgrVars, dirVars>>
    \/ \E i \in 1..MaxWs : ModelsResponseCall(i) /\ UNCHANGED <<turnVars, linkVars, reqVars, mgrVars, dirVars>>
    \/ \E k \in 1..(MaxWs + 2) : LegacyTimerCall(k) /\ UNCHANGED <<turnVars, linkVars, reqVars, mgrVars, dirVars>>
    \/ SendChatRequest /\ UNCHANGED <<turnVars, linkVars, reqVars, mgrVars, dirVars>>
    \/ \E i \in 1..MaxWs, id \in 1..MaxChats, ok \in BOOLEAN :
          ChatResponse(i, id, ok) /\ UNCHANGED <<turnVars, linkVars, reqVars, mgrVars, dirVars>>
    \/ \E c \in 1..MaxChats : ChatTimeout(c) /\ UNCHANGED <<turnVars, linkVars, reqVars, mgrVars, dirVars>>

SpecLegacyReq == Init /\ [][NextLegacyReq]_vars

\* Either rendezvous service with its disconnect(): connection, loss,
\* reconnect timers and shutdown.
NextShutdown ==
    \/ LegacyUnused /\ AppConnect /\ UNCHANGED <<turnVars, reqVars, mgrVars, legVars, dirVars>>
    \/ \E i \in 1..MaxSockets : OnConnect(i) /\ UNCHANGED <<turnVars, reqVars, mgrVars, legVars, dirVars>>
    \/ \E i \in 1..MaxSockets : OnDisconnect(i) /\ UNCHANGED <<turnVars, reqVars, mgrVars, legVars, dirVars>>
    \/ \E k \in 1..MaxSockets : ReconnectTimer(k) /\ UNCHANGED <<turnVars, reqVars, mgrVars, legVars, dirVars>>
    \/ LegacyUnused /\ DirDisconnect /\ UNCHANGED <<turnVars, mgrVars, legVars>>
    \/ LinkUnused /\ LegacyConnect /\ UNCHANGED <<turnVars, linkVars, reqVars, mgrVars, dirVars, lreq>>
    \/ \E i \in 1..MaxWs : WsOpen(i) /\ UNCHANGED <<turnVars, linkVars, reqVars, mgrVars, dirVars, lreq>>
    \/ \E i \in 1..MaxWs : WsError(i) /\ UNCHANGED <<turnVars, linkVars, reqVars, mgrVars, dirVars, lreq>>
    \/ \E k \in 1..(MaxWs + 2) : LegacyTimer(k) /\ UNCHANGED <<turnVars, linkVars, reqVars, mgrVars, dirVars, lreq>>
    \/ LinkUnused /\ LegacyDisconnect /\ UNCHANGED <<turnVars, linkVars, reqVars, mgrVars, dirVars, lreq>>

SpecShutdown == Init /\ [][NextShutdown]_vars

NextDir ==
    \/ \E peers \in Snapshots : ExistingPeers(peers) /\ UNCHANGED <<turnVars, linkVars, reqVars, mgrVars, legVars>>
    \/ \E u \in Users, l \in ModelLists, b \in BatteryStates :
          PeerModelsUpdated(u, l, b) /\ UNCHANGED <<turnVars, linkVars, reqVars, mgrVars, legVars>>
    \/ \E u \in Users, l \in ModelLists, b \in BatteryStates :
          ModelsAvailable(u, l, b) /\ UNCHANGED <<turnVars, linkVars, reqVars, mgrVars, legVars>>
    \/ \E u \in Users, id \in 1..MaxRequests, l \in ModelLists, b \in BatteryStates :
          GetModelsResponse(u, id, l, b) /\ UNCHANGED <<turnVars, linkVars, mgrVars, legVars>>
    \/ \E u \in Users : DirPeerLeft(u) /\ UNCHANGED <<turnVars, linkVars, mgrVars, legVars>>
    \/ DirDisconnect /\ UNCHANGED <<turnVars, mgrVars, legVars>>
    \/ \E u \in Users : ChannelConnected(u) /\ UNCHANGED <<turnVars, linkVars, mgrVars, legVars, dirVars>>
    \/ \E u \in Users : ChannelClose(u) /\ UNCHANGED <<turnVars, linkVars, mgrVars, legVars, dirVars>>
    \/ \E u \in Users : ChannelError(u) /\ UNCHANGED <<turnVars, linkVars, mgrVars, legVars, dirVars>>
    \/ \E u \in Users : RequestModelsFromPeer(u) /\ UNCHANGED <<turnVars, linkVars, mgrVars, legVars, dirVars>>

SpecDir == Init /\ [][NextDir]_vars

NextReq ==
    \/ \E u \in Users : ChannelConnected(u) /\ UNCHANGED <<turnVars, linkVars, mgrVars, legVars, dirVars>>
    \/ \E u \in Users : ChannelClose(u) /\ UNCHANGED <<turnVars, linkVars, mgrVars, legVars, dirVars>>
    \/ \E u \in Users : ChannelError(u) /\ UNCHANGED <<turnVars, linkVars, mgrVars, legVars, dirVars>>
    \/ \E u \in Users : PeerLeftChannel(u) /\ UNCHANGED <<turnVars, linkVars, mgrVars, legVars, dirVars>>
    \/ \E u \in Users, mt \in MessageTypes, t \in Timeouts :
          SendRequestToPeer(u, mt, t) /\ UNCHANGED <<turnVars, linkVars, mgrVars, legVars, dirVars>>
    \/ \E u \in Users : SendRequestNotConnected(u) /\ UNCHANGED <<turnVars, linkVars, mgrVars, legVars, dirVars>>
    \/ \E u \in Users, k \in {"response", "error"}, id \in 1..MaxRequests :
          HandlePeerMessage(u, k, id) /\ UNCHANGED <<turnVars, linkVars, mgrVars, legVars, dirVars>>
    \/ \E id \in 1..MaxRequests : RequestTimeout(id) /\ UNCHANGED <<turnVars, linkVars, mgrVars, legVars, dirVars>>
    \/ \E id \in 1..MaxRequests, th \in BOOLEAN :
          KeepAlive(id, th) /\ UNCHANGED <<turnVars, linkVars, mgrVars, legVars, dirVars>>
    \/ TickClock /\ UNCHANGED <<turnVars, linkVars, mgrVars, legVars, dirVars>>

\* Timers fire and time advances: the event loop always comes back to a due
\* setTimeout / setInterval callback.
SpecReq ==
    /\ Init
    /\ [][NextReq]_vars
    /\ WF_vars(TickClock /\ UNCHANGED <<turnVars, linkVars, mgrVars, legVars, dirVars>>)
    /\ \A id \in 1..MaxRequests :
          /\ WF_vars(RequestTimeout(id) /\ UNCHANGED <<turnVars, linkVars, mgrVars, legVars, dirVars>>)
          /\ WF_vars(\E th \in BOOLEAN : KeepAlive(id, th) /\ UNCHANGED <<turnVars, linkVars, mgrVars, legVars, dirVars>>)

SignalTypes == {"offer", "answer", "candidate"}

NextMgr ==
    \/ ConnectToPeer("a") /\ UNCHANGED <<turnVars, linkVars, reqVars, legVars, dirVars>>
    \/ \E t \in SignalTypes : RemoteSignal("a", t) /\ UNCHANGED <<turnVars, linkVars, reqVars, legVars, dirVars>>
    \/ \E ok \in BOOLEAN : CredentialFetchDone("a", ok) /\ UNCHANGED <<turnVars, linkVars, reqVars, legVars, dirVars>>
    \/ CredentialsExpire("a") /\ UNCHANGED <<turnVars, linkVars, reqVars, legVars, dirVars>>
    \/ \E i \in 1..MaxObjs : ReplayStep("a", i) /\ UNCHANGED <<turnVars, linkVars, reqVars, legVars, dirVars>>
    \/ \E c \in 1..MaxConnects : ConnectTimeout("a", c) /\ UNCHANGED <<turnVars, linkVars, reqVars, legVars, dirVars>>
    \/ \E k \in 1..MaxObjs : MakeOffer("a", k) /\ UNCHANGED <<turnVars, linkVars, reqVars, legVars, dirVars>>
    \/ \E k \in 1..MaxObjs : MakeAnswer("a", k) /\ UNCHANGED <<turnVars, linkVars, reqVars, legVars, dirVars>>
    \/ \E k \in 1..MaxObjs : TransportConnect("a", k) /\ UNCHANGED <<turnVars, linkVars, reqVars, legVars, dirVars>>
    \/ \E k \in 1..MaxObjs : TransportError("a", k) /\ UNCHANGED <<turnVars, linkVars, reqVars, legVars, dirVars>>
    \/ \E k \in 1..MaxObjs : TransportClose("a", k) /\ UNCHANGED <<turnVars, linkVars, reqVars, legVars, dirVars>>
    \/ PeerLeft("a") /\ UNCHANGED <<turnVars, linkVars, reqVars, legVars, dirVars>>
    \/ Disconnect("a") /\ UNCHANGED <<turnVars, linkVars, reqVars, legVars, dirVars>>

SpecMgr == Init /\ [][NextMgr]_vars

\* Two endpoints whose offers cross: every signal is handed over after both
\* offers were sent.  (A signal sent before the second offer is the first
\* offer or a candidate queued behind it, so a delivery before that moment
\* means the offers did not cross.)
CrossedDeliver(e) == crossed /\ Deliver(e)

NextPair ==
    \/ \E e \in Ends : ConnectToPeer(e) /\ UNCHANGED <<turnVars, linkVars, reqVars, legVars, dirVars>>
    \/ \E e \in Ends : CrossedDeliver(e) /\ UNCHANGED <<turnVars, linkVars, reqVars, legVars, dirVars>>
    \/ \E e \in Ends, ok \in BOOLEAN : CredentialFetchDone(e, ok) /\ UNCHANGED <<turnVars, linkVars, reqVars, legVars, dirVars>>
    \/ \E e \in Ends : CredentialsExpire(e) /\ UNCHANGED <<turnVars, linkVars, reqVars, legVars, dirVars>>
    \/ \E e \in Ends, i \in 1..MaxObjs : ReplayStep(e, i) /\ UNCHANGED <<turnVars, linkVars, reqVars, legVars, dirVars>>
    \/ \E e \in Ends, k \in 1..MaxObjs : MakeOffer(e, k) /\ UNCHANGED <<turnVars, linkVars, reqVars, legVars, dirVars>>
    \/ \E e \in Ends, k \in 1..MaxObjs : MakeAnswer(e, k) /\ UNCHANGED <<turnVars, linkVars, reqVars, legVars, dirVars>>
    \/ \E e \in Ends, k \in 1..MaxObjs : EmitCandidate(e, k) /\ UNCHANGED <<turnVars, linkVars, reqVars, legVars, dirVars>>
    \/ \E e \in Ends, k \in 1..MaxObjs : TransportConnect(e, k) /\ UNCHANGED <<turnVars, linkVars, reqVars, legVars, dirVars>>

\* what an endpoint does by itself once it can: signal delivery, the result
\* of a credential fetch, the replay sleeps and the steps of SimplePeer
PairProgress(e) ==
    \/ CrossedDeliver(e)
    \/ \E ok \in BOOLEAN : CredentialFetchDone(e, ok)
    \/ \E i \in 1..MaxObjs : ReplayStep(e, i)
    \/ \E k \in 1..MaxObjs : MakeOffer(e, k)
    \/ \E k \in 1..MaxObjs : MakeAnswer(e, k)
    \/ \E k \in 1..MaxObjs : TransportConnect(e, k)

InitCross == InitTurn /\ InitLink /\ InitReq /\ InitPair /\ InitLegacy /\ InitLegacyRequests /\ InitDir

SpecPair ==
    /\ InitCross
    /\ [][NextPair]_vars
    /\ \A e \in Ends : WF_vars(PairProgress(e) /\ UNCHANGED <<turnVars, linkVars, reqVars, legVars, dirVars>>)

(***************************************************************************)
(* Claims about TurnService                                                *)
(***************************************************************************)

\* C8: a configuration is returned from the cache only while the current
\* time is before (time its fetch completed) + 0.8 * ttl, so at least 20% of
\* the original ttl is left; at or after that instant the cache test fails
\* and the call goes to a fetch.
C8_CacheWindow ==
    /\ \A i \in 1..Len(calls) :
          calls[i].src = "cache" =>
             /\ 10 * calls[i].doneAt < 10 * calls[i].tokAt + 8 * calls[i].tokTtl * 1000
             /\ 5 * (calls[i].tokAt + calls[i].tokTtl * 1000 - calls[i].doneAt)
                    >= calls[i].tokTtl * 1000
    /\ (turnToken # NoToken /\ 10 * now >= 10 * turnToken.at + 8 * turnToken.ttl * 1000)
          => ~CacheValid

\* A call was served from the cache, the window of that token has passed and
\* a later call started a second fetch.
C8_Witness ==
    /\ turnToken # NoToken
    /\ 10 * now >= 10 * turnToken.at + 8 * turnToken.ttl * 1000
    /\ \E i, j \in 1..Len(calls) :
          /\ i < j
          /\ calls[i].src = "cache"
          /\ calls[j].src = "fetch" /\ calls[j].fetch # turnToken.fetch

\* C9: at most one credential fetch is in flight at any time, and a call
\* that joined a fetch in progress gets the same result, or the same failure,
\* as the call that started it.
C9_SingleFlight ==
    /\ Cardinality({f \in 1..Len(fetches) : fetches[f] = "pending"}) <= 1
    /\ \A i, j \in 1..Len(calls) :
          (/\ calls[i].src = "fetch" /\ calls[j].src = "join"
           /\ calls[i].fetch = calls[j].fetch
           /\ calls[i].pc = "done" /\ calls[j].pc = "done")
          => calls[i].result = calls[j].result

(***************************************************************************)
(* Claims about the rendezvous link                                        *)
(***************************************************************************)

LinkQuiescent ==
    /\ timers = <<>>
    /\ \A i \in 1..Len(sockets) : sockets[i] # "connecting"

\* C7: after the link dropped mid-session and every following attempt
\* failed, reconnect attempts are made up to maxReconnectAttempts: when no
\* timer and no attempt is pending any more, maxReconnectAttempts attempts
\* have been made and the terminal error 'Max reconnection attempts reached'
\* has been surfaced exactly once.
C7_ReconnectUntilMax ==
    /\ linkLog.attempts <= maxReconnectAttempts
    /\ (/\ linkLog.appCalls = 1
        /\ linkLog.dropped /\ ~linkLog.successSinceDrop
        /\ LinkQuiescent)
       => /\ linkLog.attempts = maxReconnectAttempts
          /\ status = UpdateStatus("error", MaxAttemptsError)
          /\ linkLog.terminalErrors = 1

(***************************************************************************)
(* Claims about requests                                                   *)
(***************************************************************************)

\* C5: every request started by sendRequestToPeer is eventually resolved or
\* rejected, and it is never still pending once its timeout has elapsed.
C5_RequestsTerminate ==
    /\ [](\A id \in 1..Len(requests) :
            requests[id].state = "pending" =>
                requests[id].timeoutIn >= 0)
    /\ \A id \in 1..MaxRequests :
          (id \in 1..Len(requests)) ~>
              (id \in 1..Len(requests) /\ requests[id].state # "pending")

\* A request to a peer that never answered was rejected by its timer.
C5_Witness ==
    \E id \in 1..Len(requests) :
        /\ requests[id].state = "rejected"
        /\ requests[id].error = "Request timeout"

\* C6: when the channel to a peer closes (transport close or error, or
\* peer-left) while requests to that peer are outstanding, they are all
\* rejected at that moment and removed from pendingRequests; requests to
\* other peers stay outstanding.
C6_CloseRejectsPending ==
    [][\A u \in Users :
         (chanPeers[u] /\ ~chanPeers'[u])
         => \A id \in 1..Len(requests) :
               IF requests[id].user = u
               THEN id \notin pendingRequests' /\ requests'[id].state # "pending"
               ELSE (id \in pendingRequests) = (id \in pendingRequests')]_vars

(***************************************************************************)
(* Claims about the peer connection manager                                *)
(***************************************************************************)
ConnectedObjects(e) ==
    {k \in 1..Len(mgr[e].objs) :
        mgr[e].objs[k].connected /\ ~mgr[e].objs[k].destroyed}

\* C1: for the remote peer there is at most one connection object that is
\* connected and not destroyed at any instant, objects that were overwritten
\* in the peers map without being destroyed included.
C1_AtMostOneConnected ==
    \A e \in Ends : Cardinality(ConnectedObjects(e)) <= 1

Converged ==
    /\ \A e \in Ends :
          /\ Cardinality(ConnectedObjects(e)) = 1
          /\ mgr[e].peers \in ConnectedObjects(e)
    /\ ~mgr["a"].objs[mgr["a"].peers].initiator
    /\ mgr["b"].objs[mgr["b"].peers].initiator
    /\ \A e \in Ends : \A c \in 1..Len(mgr[e].connects) : ~mgr[e].connects[c].timer

C3_ArrivalOrder ==
    \A e \in Ends : \A k \in 1..Len(mgr[e].objs) :
       \A i, j \in 1..Len(mgr[e].objs[k].applied) :
          i < j => mgr[e].objs[k].applied[i] < mgr[e].objs[k].applied[j]

QueueLen(m) == IF m.queuedSignals = 0 THEN 0 ELSE Len(m.arrays[m.queuedSignals])

\* C4: a signal that arrives while a creation for the peer awaits its
\* credentials and the peers map holds no object is appended to the queue of
\* the peer, whether an inbound offer or connectToPeer started the fetch.
C4_QueuedWhileFetching ==
    [][\A e \in Ends :
          (/\ mgr'[e].arrivals = mgr[e].arrivals + 1
           /\ AwaitingCredentials(mgr[e])
           /\ mgr[e].peers = 0)
          => QueueLen(mgr'[e]) = QueueLen(mgr[e]) + 1]_vars

WaitingCreations(m) == Len(SelectSeq(m.tasks, LAMBDA t : t.pc = "fetch"))

RejectedCalls(m) ==
    {c \in 1..Len(m.connects) : m.connects[c].state = "rejected"}

\* C10: when the credential fetch fails, every creation that waited for it,
\* started by an inbound offer or by connectToPeer, creates its connection
\* object and no connectToPeer call is rejected by the failure.
C10_FetchFailureFallsBack ==
    [][\A e \in Ends :
          (mgr[e].cred = "fetching" /\ mgr'[e].cred = "none")
          => /\ Len(mgr'[e].objs) = Len(mgr[e].objs) + WaitingCreations(mgr[e])
             /\ RejectedCalls(mgr'[e]) = RejectedCalls(mgr[e])]_vars

LiveObjects(m) == {k \in 1..Len(m.objs) : ~m.objs[k].destroyed}

\* C11: per remote peer the manager has at most one connection record,
\* counting undestroyed connection objects and creations that still await
\* their credentials.
C11_AtMostOneRecord ==
    \A e \in Ends :
       Cardinality(LiveObjects(mgr[e])) + WaitingCreations(mgr[e]) <= 1

\* lines 556-558: an offer meets an undestroyed object that is not stable
SignalingCollision(m, s) ==
    /\ s.type = "offer"
    /\ Live(m, m.peers)
    /\ m.objs[m.peers].signalingState # "stable"

InApplied(o, n) == \E i \in 1..Len(o.applied) : o.applied[i] = n

ArrivalIds == 1..(MaxCand + 2)

\* the polite side after the handler: its object is destroyed and out of the
\* map, and the offer is with a new non-initiator object or with the
\* creation of one
PoliteOutcome(m, m2) ==
    /\ m2.objs[m.peers].destroyed
    /\ m2.peers # m.peers
    /\ \/ \E j \in 1..Len(m2.objs) :
             /\ j > Len(m.objs) /\ m2.peers = j
             /\ ~m2.objs[j].initiator
             /\ InApplied(m2.objs[j], m.arrivals + 1)
       \/ \E i \in 1..Len(m2.tasks) :
             /\ m2.tasks[i].kind = "in"
             /\ m2.tasks[i].sig.n = m.arrivals + 1

\* C12: when an offer arrives for an undestroyed object that is not in
\* stable state, the endpoint with the smaller identity destroys and removes
\* its object and a new non-initiator object gets the offer, and the other
\* endpoint changes nothing.
C12_PoliteCollision ==
    /\ [][\A e \in Ends :
            (/\ net[e] # <<>>
             /\ SignalingCollision(mgr[e], Head(net[e]))
             /\ CrossedDeliver(e))
            => IF e = "a"
               THEN PoliteOutcome(mgr[e], mgr'[e])
               ELSE mgr'[e] = [mgr[e] EXCEPT !.arrivals = @ + 1]]_vars
    /\ \A e \in Ends : \A n \in ArrivalIds :
          (\E i \in 1..Len(mgr[e].tasks) :
               mgr[e].tasks[i].kind = "in" /\ mgr[e].tasks[i].sig.n = n)
          ~> (\E j \in 1..Len(mgr[e].objs) :
               ~mgr[e].objs[j].initiator /\ InApplied(mgr[e].objs[j], n))

\* The offers collided: endpoint a destroyed its initiator and applied the
\* offer to a non-initiator object, endpoint b received the offer of a and
\* applied nothing to its initiator.
C12_Witness ==
    /\ \E k, j \in 1..Len(mgr["a"].objs) :
          /\ mgr["a"].objs[k].initiator /\ mgr["a"].objs[k].destroyed
          /\ ~mgr["a"].objs[j].initiator
          /\ mgr["a"].objs[j].remote # NoRemote
          /\ mgr["a"].objs[j].applied # <<>>
    /\ mgr["b"].arrivals > 0
    /\ Live(mgr["b"], mgr["b"].peers)
    /\ mgr["b"].objs[mgr["b"].peers].initiator
    /\ mgr["b"].objs[mgr["b"].peers].applied = <<>>

\* no undestroyed object in the map and no creation in progress
NoRecord(m) ==
    /\ ~Live(m, m.peers)
    /\ ~m.connectingPeers
    /\ WaitingCreations(m) = 0

\* C13: a signal that is not an offer, from a peer with no live connection
\* object and no creation in progress, is dropped: no object is created, no
\* credential fetch starts, and peers, connectingPeers and queuedSignals
\* stay as they are.
C13_NonOfferDropped ==
    [][\A t \in SignalTypes \ {"offer"} :
          (NoRecord(mgr["a"]) /\ RemoteSignal("a", t))
          => mgr'["a"] = [mgr["a"] EXCEPT !.arrivals = @ + 1]]_vars

\* Signals arrived and the manager has neither an object nor a creation nor
\* a fetch: they were dropped.
C13_Witness ==
    /\ mgr["a"].arrivals > 0
    /\ mgr["a"].objs = <<>>
    /\ mgr["a"].tasks = <<>>
    /\ mgr["a"].cred = "none"
    /\ mgr["a"].queuedSignals = 0
    /\ mode = "host"

UnmarkedCreations(m) ==
    Len(SelectSeq(m.tasks, LAMBDA t : t.pc = "fetch" /\ ~t.left))

\* C14: a peer-left event removes the connection object, the queued signals
\* and the in-progress marker of the peer, and a creation that awaited its
\* credentials at that moment creates no connection object when the fetch
\* completes.
C14_PeerLeftCancels ==
    [][/\ PeerLeft("a")
          => /\ LiveObjects(mgr'["a"]) \subseteq LiveObjects(mgr["a"]) \ {mgr["a"].peers}
             /\ mgr'["a"].peers = 0
             /\ ~mgr'["a"].connectingPeers
             /\ mgr'["a"].queuedSignals = 0
       /\ (mgr["a"].cred = "fetching" /\ mgr'["a"].cred # "fetching")
          => Len(mgr'["a"].objs) - Len(mgr["a"].objs) <= UnmarkedCreations(mgr["a"])]_vars

\* C15: after disconnect() the peers map, connectingPeers and queuedSignals
\* are empty and every connection object that existed is destroyed.
C15_DisconnectClears ==
    [][Disconnect("a")
          => /\ mgr'["a"].peers = 0
             /\ ~mgr'["a"].connectingPeers
             /\ mgr'["a"].queuedSignals = 0
             /\ LiveObjects(mgr'["a"]) = {}]_vars

\* C16: every connection attempt that is not yet connected is under the
\* 15 s negotiation timer that aborts it, whether an inbound offer or
\* connectToPeer created its connection object.
C16_NegotiationCeiling ==
    \A e \in Ends : \A k \in LiveObjects(mgr[e]) :
       ~mgr[e].objs[k].connected
       => \E c \in 1..Len(mgr[e].connects) :
             mgr[e].connects[c].obj = k /\ mgr[e].connects[c].timer

(***************************************************************************)
(* Claims about request correlation                                        *)
(***************************************************************************)

\* C17: a response or error message received on the channel of one peer
\* never resolves or rejects a request that was sent to another peer,
\* whatever requestId it carries.
C17_NoCrossPeerSettle ==
    [][\A u \in Users : \A k \in {"response", "error"} : \A id \in 1..MaxRequests :
          (HandlePeerMessage(u, k, id) /\ requests[id].user # u)
          => /\ requests'[id] = requests[id]
             /\ (id \in pendingRequests') = (id \in pendingRequests)]_vars

C19_NotConnectedRejects ==
    [][(/\ Len(requests') = Len(requests) + 1
        /\ ~chanPeers[requests'[Len(requests')].user])
       => /\ requests'[Len(requests')].state = "rejected"
          /\ requests'[Len(requests')].error = "Not connected to peer"
          /\ requests'[Len(requests')].timeoutIn = NoTimer
          /\ requests'[Len(requests')].pingIn = NoTimer
          /\ pendingRequests' = pendingRequests
          /\ chanPeers' = chanPeers
          /\ \A id \in 1..Len(requests) : requests'[id] = requests[id]]_vars

\* A request to a peer that was not connected was rejected.
C19_Witness ==
    \E id \in 1..Len(requests) :
       /\ requests[id].state = "rejected"
       /\ requests[id].error = "Not connected to peer"
       /\ id \notin pendingRequests

\* C20: a failed keep-alive ping of a chat request (send throws, or the
\* channel is found disconnected or destroyed) stops the heartbeat and does
\* not settle the request: it stays in pendingRequests, unsettled, with its
\* timeout still armed.
C20_KeepAliveFailureKeepsRequest ==
    [][\A id \in 1..MaxRequests :
          (\/ KeepAlive(id, TRUE)
           \/ KeepAlive(id, FALSE) /\ ~requests[id].chanLive)
          => /\ requests[id].type = "chat"
             /\ requests'[id].pingIn = NoTimer
             /\ requests'[id].state = "pending"
             /\ id \in pendingRequests'
             /\ requests'[id].timeoutIn = requests[id].timeoutIn
             /\ requests'[id].timeoutIn >= 0]_vars

\* A chat request whose heartbeat stopped is still outstanding.
C20_Witness ==
    \E id \in 1..Len(requests) :
       /\ requests[id].type = "chat"
       /\ requests[id].state = "pending"
       /\ requests[id].pingIn = NoTimer
       /\ requests[id].timeoutIn >= 0
       /\ id \in pendingRequests

\* C21: responses to several outstanding requests may arrive in any order:
\* a response or error message settles exactly the request whose requestId it
\* carries (resolved by a response, rejected by an error, entry removed) and
\* leaves every other request, with its timeout timer and its heartbeat, and
\* its pendingRequests entry as they were.
C21_SettlesByRequestId ==
    [][\A u \in Users, kind \in {"response", "error"}, id \in 1..MaxRequests :
          HandlePeerMessage(u, kind, id) =>
             /\ \A j \in 1..Len(requests) :
                   j # id => /\ requests'[j] = requests[j]
                             /\ (j \in pendingRequests') = (j \in pendingRequests)
             /\ id \in pendingRequests =>
                   /\ id \notin pendingRequests'
                   /\ requests[id].state = "pending" =>
                         requests'[id].state =
                            IF kind = "response" THEN "resolved" ELSE "rejected"]_vars

\* The later of two requests to the same peer was answered first: the
\* earlier one is still outstanding with its timeout and heartbeat armed.
C21_Witness ==
    \E i, j \in 1..Len(requests) :
       /\ i < j
       /\ requests[i].user = requests[j].user
       /\ requests[j].state = "resolved"
       /\ requests[i].state = "pending"
       /\ i \in pendingRequests
       /\ requests[i].type = "chat"
       /\ requests[i].timeoutIn >= 0
       /\ requests[i].pingIn >= 0
       /\ requests[i].chanLive

(***************************************************************************)
(* Claims about the rendezvous links                                       *)
(***************************************************************************)

\* C22: a rejected authentication (V2: connect_error on the connection
\* attempt; legacy link: auth_response with success false) sets the status
\* to error with the failure as its message, and the rejection schedules no
\* reconnect: no timer is armed, the reconnect counter does not move and no
\* new connection is opened.
C22_AuthRejectionNoRetry ==
    [][/\ \A i \in 1..MaxSockets :
             OnConnectError(i) =>
                /\ status'.status = "error"
                /\ status'.error # ""
                /\ timers' = timers
                /\ reconnectAttempts' = reconnectAttempts
                /\ Len(sockets') = Len(sockets)
       /\ \A i \in 1..MaxWs :
             AuthResponse(i, FALSE) =>
                /\ legacy'.status = "error"
                /\ legacy'.lastError = AuthFailedError
                /\ legacy'.timers = legacy.timers
                /\ legacy'.reconnectAttempts = legacy.reconnectAttempts
                /\ Len(legacy'.wss) = Len(legacy.wss)]_vars

\* A connection attempt was rejected and nothing is left to run.
C22_Witness ==
    /\ status = UpdateStatus("error", "connect_error")
    /\ socket # 0
    /\ sockets[socket] = "failed"
    /\ timers = <<>>

\* the reconnect policy ran on the legacy link: a reconnect timer was armed
\* or the terminal error was reported
LegacyPolicyRan ==
    \/ /\ Len(legacy'.timers) = Len(legacy.timers) + 1
       /\ legacy'.timers[Len(legacy'.timers)].kind = "reconnect"
    \/ /\ legacy'.status = "error"
       /\ legacy'.lastError = MaxAttemptsError

\* C23: every network-level loss of the rendezvous connection (V2: socket
\* 'disconnect' not caused by the client; legacy: WebSocket close with a code
\* other than 1000, or a WebSocket error) triggers the reconnect policy: a
\* reconnect attempt is scheduled or the terminal max-attempts error is
\* reported, also while a model-discovery request is in progress.
C23_LossTriggersReconnect ==
    [][/\ \A i \in 1..MaxSockets :
             OnDisconnect(i) =>
                \/ Len(timers') = Len(timers) + 1
                \/ status' = UpdateStatus("error", MaxAttemptsError)
       /\ \A i \in 1..MaxWs :
             (/\ i <= Len(legacy.wss)
              /\ legacy.wss[i].handlers
              /\ WsClose(i, 1006) \/ WsError(i))
             => LegacyPolicyRan]_vars

\* C24: on every successful connect of the V2 rendezvous link, reconnects
\* included, join-account is emitted on the connection that just connected,
\* and the connect handler leaves the peers map as it was.
C24_JoinOnSameConnection ==
    [][\A i \in 1..MaxSockets :
          OnConnect(i) => /\ JoinAccountSocket = i
                          /\ chanPeers' = chanPeers
                          /\ mgr' = mgr]_vars

\* C25: the reconnect counter of the V2 link stays within
\* 0..maxReconnectAttempts, every successful connect resets it to 0, every
\* scheduled reconnect attempt increases it by exactly one (the delay being
\* reconnectDelay times the new value), and nothing else changes it.
C25_ReconnectCounter ==
    /\ [](reconnectAttempts \in 0..maxReconnectAttempts)
    /\ [][/\ \A i \in 1..MaxSockets : OnConnect(i) => reconnectAttempts' = 0
          /\ Len(timers') = Len(timers) + 1 =>
                /\ reconnectAttempts' = reconnectAttempts + 1
                /\ timers'[Len(timers')] = reconnectDelay * reconnectAttempts'
          /\ reconnectAttempts' # reconnectAttempts =>
                \/ Len(timers') = Len(timers) + 1
                \/ \E i \in 1..MaxSockets : OnConnect(i)]_vars

\* The counter reached the maximum and the next loss reported the terminal
\* error without moving it.
C25_Witness ==
    /\ reconnectAttempts = maxReconnectAttempts
    /\ status = UpdateStatus("error", MaxAttemptsError)
    /\ Len(timers) > 0

\* sockets of the link that are connecting or connected, each with the
\* handlers of connect() and setupSocketHandlers() attached
OpenSockets == {i \in 1..Len(sockets) : sockets[i] \in {"connecting", "connected"}}

\* C26: there is a single rendezvous connection at any time: a connect()
\* made while an earlier attempt is in progress or a connection is open
\* opens no second socket.
C26_SingleRendezvousConnection == Cardinality(OpenSockets) <= 1

(***************************************************************************)
(* Claims about TurnService: bare credentials                              *)
(***************************************************************************)

\* the ICE server list a caller is to receive for the credentials u / p:
\* one STUN entry, then the TURN entries with u as username and p as
\* credential
BareCredentialServers(u, p) ==
    << [urls |-> "stun:global.stun.twilio.com:3478", username |-> "", credential |-> ""],
       [urls |-> "turn:global.turn.twilio.com:3478?transport=udp", username |-> u, credential |-> p],
       [urls |-> "turn:global.turn.twilio.com:3478?transport=tcp", username |-> u, credential |-> p],
       [urls |-> "turn:global.turn.twilio.com:443?transport=tcp", username |-> u, credential |-> p] >>

BareBodies ==
    {r \in Responses : ~r.ice_servers.def /\ r.username # "" /\ r.password # ""}

\* C27: when the credential endpoint answers with a username and a password
\* but no ice_servers list, every getTurnServers() call waiting for that
\* fetch returns a list with a STUN entry followed by TURN entries that
\* carry exactly that username and password, the cache holds the assembled
\* list, and a later call served from the cache returns the same list in
\* the same order.
C27_BareCredentials ==
    [][\A r \in BareBodies :
          LET expected == BareCredentialServers(r.username, r.password) IN
          /\ \A f \in 1..MaxFetches :
                FetchSettles(f, FetchTurnToken(r)) =>
                   /\ \A i \in 1..Len(calls) :
                         (calls[i].pc = "await" /\ calls[i].fetch = f) =>
                            /\ calls'[i].result.kind = "value"
                            /\ calls'[i].result.servers = expected
                   /\ StarterAwaits(f) =>
                         /\ turnToken'.ice_servers.def
                         /\ Len(turnToken'.ice_servers.list) = Len(expected)
          /\ (/\ GetTurnServers
              /\ CacheValid
              /\ turnToken.ice_servers = List(TwilioServers(r.username, r.password)))
             => /\ calls'[Len(calls')].result.kind = "value"
                /\ calls'[Len(calls')].result.servers = expected]_vars

\* A call that fetched bare credentials and a later call served from the
\* cache both returned the assembled list.
C27_Witness ==
    \E i, j \in 1..Len(calls) :
       /\ calls[i].src = "fetch"
       /\ calls[i].result.servers = BareCredentialServers("tu", "tp")
       /\ calls[j].src = "cache"
       /\ calls[j].result.servers = BareCredentialServers("tu", "tp")

(***************************************************************************)
(* Claims about the peer directory                                         *)
(***************************************************************************)

\* getAllAvailableModels()[u], read as its consumers read it (models[u] || [])
Listed(u) ==
    LET all == GetAllAvailableModels(peerModels) IN
    IF MapHas(all, u) THEN MapGet(all, u) ELSE <<>>

\* C28: after a capability announcement for a peer (existing-peers
\* snapshot, peer-models-updated, models_available on its channel, or a
\* get_models response), getAllAvailableModels() lists for that peer the
\* models of the most recent announcement, also when that list is empty.
C28_LatestAnnouncement ==
    \A u \in Users : announced[u].def => Listed(u) = announced[u].list

\* C29: a peer-left event for a peer removes its capabilities and its power
\* state, disconnect() removes them for every peer, and a transport close or
\* error of a peer's channel leaves the capabilities in place.
C29_RemovedOnLeaveAndShutdown ==
    [][/\ \A u \in Users :
             DirPeerLeft(u) => /\ ~MapHas(peerModels', u)
                               /\ peerBatteryStates'[u] = NoBattery
       /\ DirDisconnect => /\ peerModels' = <<>>
                           /\ \A u \in Users : peerBatteryStates'[u] = NoBattery
       /\ \A u \in Users :
             (ChannelClose(u) \/ ChannelError(u)) =>
                /\ peerModels' = peerModels
                /\ peerBatteryStates' = peerBatteryStates]_vars

\* the first entry of the capability mapping whose list has a model of
\* that name, "null" when there is none
FirstHost(mapping, name) ==
    LET hits == {i \in 1..Len(mapping) :
                   \E k \in 1..Len(mapping[i].models) : mapping[i].models[k] = name}
    IN IF hits = {} THEN "null"
       ELSE mapping[CHOOSE i \in hits : \A j \in hits : i <= j].userId

\* C30: findModelHost(name) is the first peer, in the iteration order of the
\* capability mapping getAllAvailableModels(), whose list contains a model
\* named name, and null exactly when no peer's list contains one.
C30_FindModelHostFirstMatch ==
    \A name \in ModelNames :
       FindModelHost(name) = FirstHost(GetAllAvailableModels(peerModels), name)

(***************************************************************************)
(* Claims about TurnService: clearCache() and failed calls                 *)
(***************************************************************************)

\* fetch f is in flight and was started before a clearCache(): its starter
\* still awaits it and the in-flight marker no longer refers to it
ClearedInFlight(f) ==
    /\ f \in 1..Len(fetches)
    /\ fetches[f] = "pending"
    /\ StarterAwaits(f)
    /\ fetchPromise # f

\* C36: after clearCache() the completion of a fetch that was started before
\* the clear caches nothing (turnToken does not become the token of that
\* fetch) and leaves the in-flight marker as it is, so the marker of a fetch
\* started after the clear is not reset.
C36_ClearDropsInFlight ==
    [][\A f \in 1..MaxFetches :
          (ClearedInFlight(f) /\ fetches'[f] # "pending") =>
             /\ turnToken'.fetch # f
             /\ fetchPromise' = fetchPromise]_vars

\* C37: a getTurnServers() call that ends in an error leaves turnToken and
\* tokenExpiry as they were before the step that ended it, and no call ever
\* returns an empty server list.
C37_FailedCallKeepsCache ==
    /\ [](\A i \in 1..Len(calls) :
             (calls[i].pc = "done" /\ calls[i].result.kind = "value")
                => calls[i].result.servers # <<>>)
    /\ [][\A i \in 1..Len(calls) :
             (/\ calls[i].pc = "await"
              /\ calls'[i].pc = "done"
              /\ calls'[i].result.kind = "error")
             => /\ turnToken' = turnToken
                /\ tokenExpiry' = tokenExpiry]_vars

(***************************************************************************)
(* Claims about the peer connection manager: existing and superseded        *)
(* objects, connectToPeer and the signal queue                             *)
(***************************************************************************)

\* a webrtc-signal event of the given type finds a live object in the map
\* and is not an offer that meets an unfinished negotiation
MeetsExisting(m, type) ==
    /\ Live(m, m.peers)
    /\ ~(type = "offer" /\ m.objs[m.peers].signalingState # "stable")

\* C32: a signal for a peer whose object is in the map and not destroyed,
\* other than an offer that collides with an unfinished negotiation, is
\* applied to that object (it becomes the last signal the object was given),
\* creates no object and starts no creation or credential fetch; an answer
\* that arrives while the object is in stable state changes nothing.
C32_AppliedToExisting ==
    [][\A t \in SignalTypes :
          (RemoteSignal("a", t) /\ MeetsExisting(mgr["a"], t)) =>
             LET m == mgr["a"]
                 n == mgr'["a"]
                 k == m.peers
             IN /\ Len(n.objs) = Len(m.objs)
                /\ n.peers = k
                /\ n.tasks = m.tasks
                /\ n.cred = m.cred
                /\ n.connectingPeers = m.connectingPeers
                /\ n.queuedSignals = m.queuedSignals
                /\ IF t = "answer" /\ m.objs[k].signalingState = "stable"
                   THEN n.objs = m.objs
                   ELSE /\ n.objs[k].applied = Append(m.objs[k].applied, m.arrivals + 1)
                        /\ \A j \in 1..Len(m.objs) : j # k => n.objs[j] = m.objs[j]]_vars

\* The initiator object got its answer (arrival 1), a second answer arrived
\* in stable state and was ignored, and the third signal was applied.
C32_Witness ==
    LET m == mgr["a"] IN
    /\ Live(m, m.peers)
    /\ m.objs[m.peers].initiator
    /\ m.objs[m.peers].signalingState = "stable"
    /\ ~m.objs[m.peers].doomed
    /\ m.objs[m.peers].applied = <<1, 3>>
    /\ m.arrivals = 3

\* C33: a close or error event of an object that is no longer the one
\* stored in the map, and the 15 s timeout of the connectToPeer() call that
\* created such an object, leave the live object the map holds in the map
\* and undestroyed.
C33_SupersededLeavesNewer ==
    [][LET m == mgr["a"]
           n == mgr'["a"]
           kept == n.peers = m.peers /\ ~n.objs[m.peers].destroyed
       IN /\ \A k \in 1..MaxObjs :
                (/\ TransportClose("a", k) \/ TransportError("a", k)
                 /\ k # m.peers
                 /\ Live(m, m.peers))
                => kept
          /\ \A c \in 1..MaxConnects :
                (/\ ConnectTimeout("a", c)
                 /\ m.connects[c].obj # m.peers
                 /\ Live(m, m.peers))
                => kept]_vars

\* endpoint e holds a connected channel to its peer
HasConnectedChannel(e) ==
    \E k \in 1..Len(mgr[e].objs) : Live(mgr[e], k) /\ mgr[e].objs[k].connected

\* C34 (outcome): a connectToPeer() call of an endpoint is rejected only if
\* the attempt leaves the endpoint without a connected channel to the peer,
\* also when the endpoint rolled back its own offer as the polite side.
C34_OutcomeMatchesConnection ==
    \A e \in Ends : \A c \in 1..Len(mgr[e].connects) :
       mgr[e].connects[c].state = "rejected" => ~HasConnectedChannel(e)

\* a replay loop of handleWebRTCSignal is walking the array the queue holds
ReplayRunning(m) ==
    \E i \in 1..Len(m.tasks) : m.tasks[i].pc = "replay" /\ m.tasks[i].arr = m.queuedSignals

\* C38: queuedSignals holds signals for the peer only while a creation for
\* the peer is in progress (the peer is in connectingPeers, or the object
\* just created is being given the queued signals), and the object of a
\* creation is given no signal that arrived before the offer that started
\* the creation, i.e. none that was queued for an earlier attempt.
C38_QueueOnlyWhileCreating ==
    LET m == mgr["a"] IN
    /\ m.queuedSignals # 0 => m.connectingPeers \/ ReplayRunning(m)
    /\ \A i \in 1..Len(m.tasks) :
          m.tasks[i].pc = "replay" =>
             \A j \in 1..Len(m.objs[m.tasks[i].obj].applied) :
                m.objs[m.tasks[i].obj].applied[j] >= m.tasks[i].sig.n

(***************************************************************************)
(* Claims about the legacy service P2PClientService                        *)
(***************************************************************************)

\* the token the auth message is to carry: the credential token (the dev
\* token when the service has none) when the message that carries it is at
\* most AuthLimit characters long, else the dev token
ExpectedAuthToken(authToken) ==
    LET full == IF authToken = 0 THEN DevToken ELSE [kind |-> "full", len |-> authToken]
    IN IF AuthOverhead + full.len + PeerIdLen <= AuthLimit THEN full ELSE DevToken

\* C31: exactly one auth message is sent per opened connection of the
\* legacy link (none before the connection opens, never a second one), and
\* the message carries the full credential token when its serialization is
\* at most 64000 characters long and the dev:<userId> token when longer.
C31_OneAuthMessage ==
    /\ [](\A i \in 1..Len(legacy.wss) :
             /\ Len(lreq.sent[i]) <= 1
             /\ legacy.wss[i].state = "open" => Len(lreq.sent[i]) = 1
             /\ legacy.wss[i].state = "connecting" => Len(lreq.sent[i]) = 0)
    /\ [][\A i \in 1..MaxWs :
             WsOpenAuth(i) =>
                /\ Len(lreq'.sent[i]) = 1
                /\ lreq'.sent[i][1].token = ExpectedAuthToken(lreq.authToken)
                /\ lreq'.sent[i][1].size <= AuthLimit]_vars

\* One connection authenticated with the longest token that fits, and after
\* a login with a token one character longer another connection
\* authenticated with the dev token.
C31_Witness ==
    /\ lreq.authToken = 63928
    /\ \E i, j \in 1..Len(legacy.wss) :
          /\ lreq.sent[i] = <<AuthData([kind |-> "full", len |-> 63927], PeerIdLen)>>
          /\ lreq.sent[j] = <<AuthData(DevToken, PeerIdLen)>>
          /\ legacy.wss[j].state = "open"

\* C35: after an explicit disconnect() no connection to the rendezvous
\* service is opened until the application calls connect(): a reconnect
\* timer that fires while the service is disconnected by the application
\* (V2: this.socket is null; legacy: status 'disconnected') opens nothing.
C35_NoReconnectAfterDisconnect ==
    [][/\ \A k \in 1..MaxSockets :
             (ReconnectTimer(k) /\ socket = 0) => Len(sockets') = Len(sockets)
       /\ \A k \in 1..(MaxWs + 2) :
             (LegacyTimer(k) /\ legacy.status = "disconnected")
             => Len(legacy'.wss) = Len(legacy.wss)]_vars

\* C39: when the 30-second timer of a requestPeerModels call fires, the
\* call rejects and modelDiscoveryInProgress is false afterwards.
C39_ModelRequestTimesOut ==
    [][\A k \in 1..(MaxWs + 2) :
          (/\ k <= Len(legacy.timers)
           /\ legacy.timers[k].kind = "models"
           /\ LegacyTimerCall(k))
          => /\ lreq'.modelCalls[Len(lreq'.modelCalls)] = "rejected"
             /\ ~legacy'.modelDiscoveryInProgress]_vars

\* C40: a sendChatRequest call whose chat_response reached the client while
\* the call was pending is settled, whatever the order of the responses of
\* two outstanding calls, and once every call was answered and settled
\* this.handleChatResponse is the method of the class again.
C40_ChatResponsesSettle ==
    /\ \A c \in 1..Len(lreq.chats) :
          lreq.chats[c].answered => lreq.chats[c].state # "pending"
    /\ (/\ lreq.chats # <<>>
        /\ \A c \in 1..Len(lreq.chats) :
              lreq.chats[c].answered /\ lreq.chats[c].state # "pending")
       => lreq.handleChatResponse = 0

====
